---------------------------- MODULE Spec2Model ----------------------------
(***************************************************************************)
(* Model of the resilience layer of the aPaaS OpenAPI node client          *)
(* (src/src/index.ts): the retry executor, the credential store of Client, *)
(* the chunked batch operations and the paginated iterators.               *)
(*                                                                         *)
(* Four specifications share the module:                                   *)
(*   SpecRetry  executeWithRetry around an arbitrary operation             *)
(*   SpecToken  two tasks of one client calling ensureTokenValid           *)
(*   SpecAccess one task calling init() and reading token and              *)
(*              tokenExpireTime                                            *)
(*   Spec       one run of a batch operation (create / update / delete     *)
(*              recordsWithIterator, department / user batchExchange) or   *)
(*              of a pagination (object.listWithIterator,                  *)
(*              object.search.recordsWithIterator, page / global.options / *)
(*              global.variables listWithIterator), each unit call going   *)
(*              through ensureTokenValid and the request                   *)
(***************************************************************************)
EXTENDS Integers, Sequences, FiniteSets, TLC

(* ----------------------------- bounds --------------------------------- *)

\* largest maxRetries a caller passes explicitly
MaxRetriesOpt == 2

\* how many times the clock advances
MaxTicks == 3

\* the expiry instants the credential endpoint answers with: 0..MaxExpirySteps clock steps
MaxExpirySteps == 6

\* how many times one task calls Client.init
MaxEnsureCalls == 2

\* longest input array of a batch operation
MaxRecords == 3

\* largest limit a caller passes explicitly
MaxLimit == 2

\* how many chunks the chunking loop is followed through
MaxChunks == 5

\* largest total the objects list of the server has (besides ExampleTotal)
MaxTotal == 3

\* how many pages one listWithIterator run is followed through
MaxPages == 4

\* a total that the default page limit splits in three pages
ExampleTotal == 120

(* ------------------------- generic helpers ---------------------------- *)

\* an optional value: << >> is JavaScript's undefined, <<v>> is the value v
Undefined == << >>

Some(v) == <<v>>

\* destructuring default: `{ x = d } = options`
OrDefault(opt, d) == IF opt = Undefined THEN d ELSE opt[1]

Min(a, b) == IF a < b THEN a ELSE b

RECURSIVE Pow(_, _)
Pow(b, e) == IF e = 0 THEN 1 ELSE b * Pow(b, e - 1)

(* ------------------------------ errors -------------------------------- *)

\* A thrown value.  isAxios: axios.isAxiosError(error); code: error.code;
\* response: << >> when error.response is undefined, else <<status>>;
\* msg: error.message, as the sequence of its parts; at: which invocation threw it;
\* received tells whether the peer answered at all (an Error built by the
\* client from a non-success envelope has no .response but was answered).
AxiosNoResponse(c, m) ==
    [isAxios |-> TRUE, code |-> c, response |-> Undefined, received |-> FALSE,
     msg |-> m, at |-> 0]

AxiosStatus(s, m) ==
    [isAxios |-> TRUE,
     code |-> IF s >= 500 THEN "ERR_BAD_RESPONSE" ELSE "ERR_BAD_REQUEST",
     response |-> Some(s), received |-> TRUE, msg |-> m, at |-> 0]

\* `new Error(msg)` thrown by the client itself
PlainError(m) ==
    [isAxios |-> FALSE, code |-> "", response |-> Undefined, received |-> TRUE,
     msg |-> m, at |-> 0]

NetworkCodes == {"ECONNRESET", "ETIMEDOUT", "ENOTFOUND", "ECONNABORTED", "ERR_NETWORK"}

HttpErrorStatuses == {400, 401, 404, 429, 500, 503}

\* the failures a request made through axios can end with
TransportErrors ==
    {AxiosNoResponse(c, <<"network error">>) : c \in NetworkCodes}
        \cup {AxiosStatus(s, <<"request failed with status">>) : s \in HttpErrorStatuses}
        \cup {[AxiosNoResponse("ETIMEDOUT", <<"socket error">>) EXCEPT !.isAxios = FALSE]}

\* a business-level failure: the envelope's code is not '0'
BusinessErrors == {PlainError(<<"business failure">>)}

(* ------------------------- isRetryableError --------------------------- *)

isRetryableError_No429(error) ==
    \/ error.code \in {"ECONNRESET", "ETIMEDOUT", "ENOTFOUND"}
    \/ /\ error.isAxios
       /\ \/ error.response = Undefined
          \/ error.response # Undefined /\ error.response[1] >= 500

isRetryableError(error) ==
    \/ error.code \in {"ECONNRESET", "ETIMEDOUT", "ENOTFOUND"}
    \/ /\ error.isAxios
       /\ \/ error.response = Undefined
          \/ error.response # Undefined /\ error.response[1] >= 500
          \/ error.response # Undefined /\ error.response[1] = 429

(* ------------------------- executeWithRetry --------------------------- *)

DefaultMaxRetries == 3
DefaultInitialDelay == 1000
DefaultMaxDelay == 10000
DefaultBackoffMultiplier == 2

\* RetryOptions with every field left out: `options = {}`
NoRetryOptions ==
    [maxRetries |-> Undefined, initialDelay |-> Undefined,
     maxDelay |-> Undefined, backoffMultiplier |-> Undefined]

\* the destructured policy of lines 74-79
Policy(options) ==
    [maxRetries |-> OrDefault(options.maxRetries, DefaultMaxRetries),
     initialDelay |-> OrDefault(options.initialDelay, DefaultInitialDelay),
     maxDelay |-> OrDefault(options.maxDelay, DefaultMaxDelay),
     backoffMultiplier |-> OrDefault(options.backoffMultiplier, DefaultBackoffMultiplier)]

\* mutant: the delay is not capped by maxDelay
BackoffDelay_NoCap(options, k) ==
    Policy(options).initialDelay * Pow(Policy(options).backoffMultiplier, k)

\* line 100: Math.min(initialDelay * Math.pow(backoffMultiplier, attempt), maxDelay)
BackoffDelay(options, k) ==
    Min(Policy(options).initialDelay * Pow(Policy(options).backoffMultiplier, k),
        Policy(options).maxDelay)

\* mutant: a non-retryable failure is retried like any other
RetryVerdict_RetryAll(options, k, error) ==
    IF k = Policy(options).maxRetries THEN "exhausted" ELSE "retry"

\* the catch block of lines 86-112: what follows the failure of attempt k
RetryVerdict(options, k, error) ==
    IF k = Policy(options).maxRetries THEN "exhausted"
    ELSE IF ~isRetryableError(error) THEN "rethrow"
    ELSE "retry"

VARIABLES
    retryOptions,   \* the options executeWithRetry was called with
    attempt,        \* the loop variable of line 83
    fnCalls,        \* how many times fn was invoked
    delays,         \* the delays waited so far, in order
    lastError,      \* << >> or <<error>>
    errLog,         \* the failure of each attempt so far, in order
    rpc,            \* "idle", "loop", "await", "sleep", "returned", "thrown"
    rOutcome        \* << >>, or the value returned / the error thrown

retryVars == <<retryOptions, attempt, fnCalls, delays, lastError, errLog, rpc, rOutcome>>

VARIABLES
    disableTokenCache,  \* Client.disableTokenCache
    accessToken,        \* Client.accessToken: << >> (null) or <<token>>
    expireTime,         \* Client.expireTime: << >> (null) or <<epoch ms>>
    now,                \* the clock read by dayjs().valueOf()
    tpc,                \* per task: where it is in ensureTokenValid
    tErr,               \* per task: << >> or <<the error ensureTokenValid threw>>
    issued,             \* how many appToken requests the client has sent
    ensureCalls,        \* per task: how many times it has called Client.init
    observed            \* << >> or <<what the accessors returned when last read>>

tokenVars ==
    <<disableTokenCache, accessToken, expireTime, now, tpc, tErr, issued, ensureCalls,
      observed>>

VARIABLES
    op,             \* which batch operation runs
    input,          \* the caller's records / ids / department_ids / user_ids argument
    limit,          \* the caller's limit: << >> when left out
    retryParam,     \* the caller's retryOptions (batchExchange)
    i,              \* the index of the chunking loop
    chunks,         \* the chunks built so far
    index,          \* the chunk being processed, from 1
    successItems,   \* successItems / successResults
    failedItems,    \* failedItems / failedResults
    bpc,            \* where the batch operation is
    bOutcome,       \* what the operation returned or threw
    admitted,       \* limiter admissions the task holds
    requests,       \* the data requests sent so far: chunk index and size
    authFailures,   \* how many times credential issuance failed during the operation
    unitLog         \* how the call of each chunk / page ended, in order

batchVars ==
    <<op, input, limit, retryParam, i, chunks, index, successItems, failedItems,
      bpc, bOutcome, admitted, requests, authFailures, unitLog>>

VARIABLES
    serverTotal,    \* how many objects the server has (listWithIterator)
    offset,         \* listWithIterator: let offset
    hasMore,        \* let hasMore
    results,        \* let results
    total,          \* let total
    page,           \* let page
    failedPages,    \* let failed
    usePageToken,   \* search.recordsWithIterator: data.use_page_token
    nextPageToken   \* let nextPageToken: << >> (undefined) or <<string>>

listVars ==
    <<serverTotal, offset, hasMore, results, total, page, failedPages, usePageToken,
      nextPageToken>>

vars == <<retryVars, tokenVars, batchVars, listVars>>

RetryOptionSets ==
    [maxRetries : {Undefined} \cup {Some(n) : n \in 0..MaxRetriesOpt},
     initialDelay : {Undefined, Some(500)},
     maxDelay : {Undefined, Some(1200)},
     backoffMultiplier : {Undefined, Some(1), Some(3)}]

RetryIdle ==
    /\ retryOptions = NoRetryOptions
    /\ attempt = 0
    /\ fnCalls = 0
    /\ delays = << >>
    /\ lastError = Undefined
    /\ errLog = << >>
    /\ rpc = "idle"
    /\ rOutcome = Undefined

\* executeWithRetry(fn, options) is entered: line 81-83, attempt = 0
RetryEnter(options) ==
    /\ retryOptions' = options
    /\ attempt' = 0
    /\ fnCalls' = 0
    /\ delays' = << >>
    /\ lastError' = Undefined
    /\ errLog' = << >>
    /\ rpc' = "loop"
    /\ rOutcome' = Undefined

\* line 83-85: the loop test, then fn() is invoked; line 116 when the loop is left
RetryLoop ==
    /\ rpc = "loop"
    /\ IF attempt <= Policy(retryOptions).maxRetries
       THEN /\ fnCalls' = fnCalls + 1
            /\ rpc' = "await"
            /\ UNCHANGED rOutcome
       ELSE /\ rpc' = "thrown"
            /\ rOutcome' = lastError
            /\ UNCHANGED fnCalls
    /\ UNCHANGED <<retryOptions, attempt, delays, lastError, errLog>>

\* mutant: the value of fn() is awaited but not returned, and the loop goes on
RetryFnResolved_NotReturned(v) ==
    /\ rpc = "await"
    /\ attempt' = attempt + 1
    /\ rpc' = "loop"
    /\ UNCHANGED <<retryOptions, fnCalls, delays, lastError, errLog, rOutcome>>

\* line 85: fn() resolved with value v
RetryFnResolved(v) ==
    /\ rpc = "await"
    /\ rpc' = "returned"
    /\ rOutcome' = Some(v)
    /\ UNCHANGED <<retryOptions, attempt, fnCalls, delays, lastError, errLog>>

\* lines 86-112: fn() rejected with error
RetryFnRejected(error) ==
    /\ rpc = "await"
    /\ lastError' = Some(error)
    /\ errLog' = Append(errLog, error)
    /\ LET verdict == RetryVerdict(retryOptions, attempt, error) IN
         CASE verdict = "exhausted" ->
                /\ rpc' = "thrown"
                /\ rOutcome' = Some(error)
                /\ UNCHANGED delays
           [] verdict = "rethrow" ->
                /\ rpc' = "thrown"
                /\ rOutcome' = Some(error)
                /\ UNCHANGED delays
           [] OTHER ->
                /\ rpc' = "sleep"
                /\ delays' = Append(delays, BackoffDelay(retryOptions, attempt))
                /\ UNCHANGED rOutcome
    /\ UNCHANGED <<retryOptions, attempt, fnCalls>>

\* line 111 and the loop increment: the timer fires, attempt++
RetryWake ==
    /\ rpc = "sleep"
    /\ attempt' = attempt + 1
    /\ rpc' = "loop"
    /\ UNCHANGED <<retryOptions, fnCalls, delays, lastError, errLog, rOutcome>>

(* --------------------- Client: credential store ----------------------- *)

Tasks == {"t1", "t2"}

\* line 242: 60 * 1000
RefreshMargin == 60000

\* the clock is read in steps of half the margin, starting one margin after 0
ClockStep == RefreshMargin \div 2

StartNow == 2 * ClockStep

ExpireTimes == {k * ClockStep : k \in 0..MaxExpirySteps}

\* TokenResponse (lines 136-143): the bodies the appToken endpoint answers with
TokenResponses ==
    {[code |-> "0", accessToken |-> <<"token", e>>, expireTime |-> e, msg |-> "success"] :
        e \in ExpireTimes}
      \cup {[code |-> "k_ident_013000", accessToken |-> <<"token", 0>>, expireTime |-> 0,
             msg |-> "invalid client"]}

\* the failures of one request used where the classification, not the detail, matters
RequestErrors ==
    {AxiosNoResponse("ECONNRESET", <<"network error">>),
     AxiosStatus(503, <<"request failed with status">>),
     AxiosStatus(400, <<"request failed with status">>)}

\* mutant: the margin test is inclusive
RefreshNeeded_Inclusive(cacheOff, token, expire, clock) ==
    IF cacheOff THEN TRUE
    ELSE IF token = Undefined \/ expire = Undefined \/ expire = Some(0) THEN TRUE
    ELSE clock + RefreshMargin >= expire[1]

\* mutant: disableTokenCache is not looked at
RefreshNeeded_CacheFlagIgnored(cacheOff, token, expire, clock) ==
    IF token = Undefined \/ expire = Undefined \/ expire = Some(0) THEN TRUE
    ELSE clock + RefreshMargin > expire[1]

\* lines 229-245: does ensureTokenValid call getAccessToken?
\* `!this.accessToken || !this.expireTime` is true of null and of 0
RefreshNeeded(cacheOff, token, expire, clock) ==
    IF cacheOff THEN TRUE
    ELSE IF token = Undefined \/ expire = Undefined \/ expire = Some(0) THEN TRUE
    ELSE clock + RefreshMargin > expire[1]

RefreshesInFlight == Cardinality({u \in Tasks : tpc[u] = "refreshing"})

TokenIdle ==
    /\ accessToken = Undefined
    /\ expireTime = Undefined
    /\ now = StartNow
    /\ tpc = [t \in Tasks |-> "idle"]
    /\ tErr = [t \in Tasks |-> Undefined]
    /\ issued = 0
    /\ ensureCalls = [t \in Tasks |-> 0]
    /\ observed = Undefined

\* the client after an earlier init(): one appToken request was sent and its
\* credential, good beyond the margin, is stored
TokenHeld ==
    /\ accessToken = Some(<<"token", StartNow + RefreshMargin>>)
    /\ expireTime = Some(StartNow + RefreshMargin)
    /\ now = StartNow
    /\ tpc = [t \in Tasks |-> "idle"]
    /\ tErr = [t \in Tasks |-> Undefined]
    /\ issued = 1
    /\ ensureCalls = [t \in Tasks |-> IF t = "t1" THEN 1 ELSE 0]
    /\ observed = Undefined

\* mutant: a call that finds a refresh in flight sends none of its own
EnsureTokenValid_SingleFlight(t) ==
    /\ tpc[t] = "idle"
    /\ tErr' = [tErr EXCEPT ![t] = Undefined]
    /\ IF RefreshNeeded(disableTokenCache, accessToken, expireTime, now)
          /\ RefreshesInFlight = 0
       THEN /\ issued' = issued + 1
            /\ tpc' = [tpc EXCEPT ![t] = "refreshing"]
       ELSE /\ issued' = issued
            /\ tpc' = [tpc EXCEPT ![t] = "returned"]
    /\ UNCHANGED <<observed, disableTokenCache, accessToken, expireTime, now>>

\* ensureTokenValid up to its first await (lines 228-245, 208-213): either it
\* returns at once or getAccessToken has sent the appToken request
EnsureTokenValid(t) ==
    /\ tpc[t] = "idle"
    /\ tErr' = [tErr EXCEPT ![t] = Undefined]
    /\ IF RefreshNeeded(disableTokenCache, accessToken, expireTime, now)
       THEN /\ issued' = issued + 1
            /\ tpc' = [tpc EXCEPT ![t] = "refreshing"]
       ELSE /\ issued' = issued
            /\ tpc' = [tpc EXCEPT ![t] = "returned"]
    /\ UNCHANGED <<observed, disableTokenCache, accessToken, expireTime, now>>

\* mutant: the credential is stored before the code of the answer is looked at
GetAccessTokenAnswered_StoreFirst(t, res) ==
    /\ tpc[t] = "refreshing"
    /\ accessToken' = Some(res.accessToken)
    /\ expireTime' = Some(res.expireTime)
    /\ IF res.code # "0"
       THEN /\ tErr' = [tErr EXCEPT ![t] = Some(PlainError(<<"getAccessToken failed", res.msg>>))]
            /\ tpc' = [tpc EXCEPT ![t] = "threw"]
       ELSE /\ tpc' = [tpc EXCEPT ![t] = "returned"]
            /\ UNCHANGED tErr
    /\ UNCHANGED <<observed, disableTokenCache, now, issued, ensureCalls>>

\* mutant: the token of every success answer is stored, its expiry only when
\* later than the stored one
GetAccessTokenAnswered_KeepsLaterExpiry(t, res) ==
    /\ tpc[t] = "refreshing"
    /\ IF res.code # "0"
       THEN /\ tErr' = [tErr EXCEPT ![t] = Some(PlainError(<<"getAccessToken failed", res.msg>>))]
            /\ tpc' = [tpc EXCEPT ![t] = "threw"]
            /\ UNCHANGED <<accessToken, expireTime>>
       ELSE /\ accessToken' = Some(res.accessToken)
            /\ expireTime' = IF expireTime # Undefined /\ expireTime[1] > res.expireTime
                             THEN expireTime ELSE Some(res.expireTime)
            /\ tpc' = [tpc EXCEPT ![t] = "returned"]
            /\ UNCHANGED tErr
    /\ UNCHANGED <<observed, disableTokenCache, now, issued, ensureCalls>>

\* lines 215-223 and the return of ensureTokenValid: the appToken request is
\* answered with body res
GetAccessTokenAnswered(t, res) ==
    /\ tpc[t] = "refreshing"
    /\ IF res.code # "0"
       THEN /\ tErr' = [tErr EXCEPT ![t] = Some(PlainError(<<"getAccessToken failed", res.msg>>))]
            /\ tpc' = [tpc EXCEPT ![t] = "threw"]
            /\ UNCHANGED <<accessToken, expireTime>>
       ELSE /\ accessToken' = Some(res.accessToken)
            /\ expireTime' = Some(res.expireTime)
            /\ tpc' = [tpc EXCEPT ![t] = "returned"]
            /\ UNCHANGED tErr
    /\ UNCHANGED <<observed, disableTokenCache, now, issued, ensureCalls>>

\* mutant: a refresh whose request fails clears the stored credential
GetAccessTokenRejected_ClearsCredential(t, error) ==
    /\ tpc[t] = "refreshing"
    /\ tErr' = [tErr EXCEPT ![t] = Some(error)]
    /\ tpc' = [tpc EXCEPT ![t] = "threw"]
    /\ accessToken' = Undefined
    /\ expireTime' = Undefined
    /\ UNCHANGED <<observed, disableTokenCache, now, issued, ensureCalls>>

\* line 210: the appToken request itself rejects (no answer, or an HTTP error status)
GetAccessTokenRejected(t, error) ==
    /\ tpc[t] = "refreshing"
    /\ tErr' = [tErr EXCEPT ![t] = Some(error)]
    /\ tpc' = [tpc EXCEPT ![t] = "threw"]
    /\ UNCHANGED <<observed, disableTokenCache, accessToken, expireTime, now, issued, ensureCalls>>

\* the caller of ensureTokenValid resumes after its await
EnsureTokenValidDone(t) ==
    /\ tpc[t] \in {"returned", "threw"}
    /\ tpc' = [tpc EXCEPT ![t] = "idle"]
    /\ UNCHANGED <<observed, disableTokenCache, accessToken, expireTime, now, issued, ensureCalls, tErr>>

\* time passes
Tick ==
    /\ now < StartNow + MaxTicks * ClockStep
    /\ now' = now + ClockStep
    /\ UNCHANGED <<observed, disableTokenCache, accessToken, expireTime, tpc, tErr, issued, ensureCalls>>

\* the clock read by an accessor: so many ms after the instant `now` stands for
ReadSkews == {0, 1}

\* lines 251-253: get token
Token == accessToken

\* lines 259-277: get tokenExpireTime, the clock reading `clock`; << >> is null
\* `!this.accessToken || !this.expireTime` is true of null and of 0
TokenExpireTime(clock) ==
    IF accessToken = Undefined \/ expireTime = Undefined \/ expireTime = Some(0)
    THEN Undefined
    ELSE IF expireTime[1] - clock <= 0 THEN Some(0)
    ELSE Some((expireTime[1] - clock) \div 1000)

\* client.token and client.tokenExpireTime are read, d ms after `now`
ReadAccessors(d) ==
    /\ observed' = Some([token |-> Token, remaining |-> TokenExpireTime(now + d),
                         at |-> now + d])
    /\ UNCHANGED <<disableTokenCache, accessToken, expireTime, now, tpc, tErr, issued,
                   ensureCalls>>

(* ------------------------- batch operations --------------------------- *)

RecordOps == {"create", "update", "delete"}

ExchangeOps == {"department", "user"}

\* line 740 / 895 / 1053: `limit = 100`
DefaultLimit == 100

\* line 1218 / 1375: const chunkSize = 200
ExchangeChunkSize == 200

\* `record._id || 'unknown'` (lines 780, 806, 933, 959): 'unknown' is written 0,
\* the ids of the records being the numbers from 1
UnknownId == 0

\* chunkSize of lines 753, 908, 1068, 1218, 1375
ChunkSizeOf(o, lim) ==
    IF o \in ExchangeOps THEN ExchangeChunkSize ELSE OrDefault(lim, DefaultLimit)

\* Array.prototype.slice: a negative index counts from the end, and both are
\* clamped to 0..length
RelativeIndex(len, k) == IF k < 0 THEN (IF len + k < 0 THEN 0 ELSE len + k) ELSE Min(k, len)

\* mutant: the slice loses its last element
Slice_DropLast(seq, from, to) ==
    IF RelativeIndex(Len(seq), from) >= RelativeIndex(Len(seq), to) THEN << >>
    ELSE SubSeq(seq, RelativeIndex(Len(seq), from) + 1, RelativeIndex(Len(seq), to) - 1)

\* Array.prototype.slice(from, to)
Slice(seq, from, to) ==
    IF RelativeIndex(Len(seq), from) >= RelativeIndex(Len(seq), to) THEN << >>
    ELSE SubSeq(seq, RelativeIndex(Len(seq), from) + 1, RelativeIndex(Len(seq), to))

\* an input that the default limit splits in three and batchExchange in two
LargeInput == 2 * DefaultLimit + 1

\* an input of one chunk and a half under the default limit
ExampleInput == DefaultLimit + DefaultLimit \div 2

\* the caller's collection: an array of 0..MaxRecords items, of ExampleInput
\* or of LargeInput items, or no array at all
Inputs ==
    {[kind |-> "array", items |-> [k \in 1..n |-> k]] :
        n \in (0..MaxRecords) \cup {ExampleInput, LargeInput}}
      \cup {[kind |-> "missing", items |-> << >>], [kind |-> "notArray", items |-> << >>]}

\* the operations run on the large input: one of each family
LargeInputOps == {"create", "department"}

\* the limit a caller passes: none, a positive number, zero or a negative one
Limits == {Undefined} \cup {Some(n) : n \in (-1)..MaxLimit}

\* the retryOptions a caller of batchExchange passes
RetryParams ==
    {NoRetryOptions,
     [NoRetryOptions EXCEPT !.maxRetries = Some(0)],
     [NoRetryOptions EXCEPT !.maxRetries = Some(1), !.initialDelay = Some(500)]}

BatchTask == "t1"

\* the _id the client reports for an input item it marks failed itself:
\* records to create carry no _id, records to update do, ids are their own
ReportedId(o, k) == IF o = "create" THEN UnknownId ELSE k

\* mutant: only the first item of the chunk is pushed to the failed list
ChunkFailedEntries_FirstOnly(o, chunk, m) ==
    IF o \in ExchangeOps
    THEN [j \in 1..1 |-> [id |-> chunk[j], error |-> m]]
    ELSE [j \in 1..1 |->
            [_id |-> ReportedId(o, chunk[j]), success |-> "false", error |-> m]]

\* lines 778-784, 804-810 (and their copies), 1273-1278: every item of the
\* chunk is pushed to the failed list with message m
ChunkFailedEntries(o, chunk, m) ==
    IF o \in ExchangeOps
    THEN [j \in 1..Len(chunk) |-> [id |-> chunk[j], error |-> m]]
    ELSE [j \in 1..Len(chunk) |->
            [_id |-> ReportedId(o, chunk[j]), success |-> "false", error |-> m]]

\* `res.msg || <fallback naming the code>`
MsgOrFallback(o, res) ==
    IF res.msg # "" THEN <<res.msg>>
    ELSE <<CASE o = "create" -> "Creation failed with code"
             [] o = "update" -> "Update failed with code"
             [] o = "delete" -> "Delete failed with code"
             [] OTHER -> "Exchange failed with code", res.code>>

\* mutant: update and delete classify as create does
CountsAsSuccess_AllLikeCreate(o, item) == item.success # "false"

\* create (line 791): item.success !== false; update, delete (944, 1104): item.success
CountsAsSuccess(o, item) ==
    IF o = "create" THEN item.success # "false" ELSE item.success = "true"

RECURSIVE SelectItems(_, _, _)
SelectItems(o, items, wanted) ==
    IF items = << >> THEN << >>
    ELSE (IF CountsAsSuccess(o, Head(items)) = wanted THEN <<Head(items)>> ELSE << >>)
            \o SelectItems(o, Tail(items), wanted)

\* mutant: total is what the two lists add up to
BatchResult_TotalFromCounts(items, success, failed) ==
    [total |-> Len(success) + Len(failed), success |-> success, failed |-> failed,
     successCount |-> Len(success), failedCount |-> Len(failed)]

\* lines 814-820, 967-973, 1126-1132, 1282-1288, 1440-1446
BatchResult(items, success, failed) ==
    [total |-> Len(items), success |-> success, failed |-> failed,
     successCount |-> Len(success), failedCount |-> Len(failed)]

\* the per-item flags a server puts in its answer, repeating with period 2
FlagPatterns == [1..2 -> {"true", "false", "undefined"}]

\* a long chunk is answered with the same flag on every item
ChunkFlagPatterns(chunk) ==
    IF Len(chunk) > MaxRecords THEN {p \in FlagPatterns : p[1] = p[2]} ELSE FlagPatterns

\* how many of the chunk's items a successful answer enumerates
AnswerLengths(chunk) == {n \in {0, Len(chunk) - 1, Len(chunk)} : n >= 0}

FailureEnvelopes ==
    {[code |-> "k_ec_000015", msg |-> m, data |-> Undefined] : m \in {"operation failed", ""}}

\* the bodies a batch endpoint answers a chunk with
ChunkAnswers(o, chunk) ==
    FailureEnvelopes
      \cup {[code |-> "0", msg |-> "success", data |-> Undefined]}
      \cup IF o \in ExchangeOps
           THEN {[code |-> "0", msg |-> "success",
                  data |-> Some([j \in 1..n |-> [id |-> chunk[j], mapped |-> TRUE]])] :
                    n \in AnswerLengths(chunk)}
           ELSE {[code |-> "0", msg |-> "success",
                  data |-> Some([items |->
                            [j \in 1..n |-> [_id |-> chunk[j],
                                              success |-> p[((j - 1) % 2) + 1]]]])] :
                    n \in AnswerLengths(chunk), p \in ChunkFlagPatterns(chunk)}

\* the appToken answers used while a batch runs: a credential good beyond the
\* margin, and a refusal
BatchTokenResponses ==
    {res \in TokenResponses : res.code # "0" \/ res.expireTime = StartNow + RefreshMargin}

CurrentChunk == chunks[index]

BatchIdle ==
    /\ op = "create"
    /\ input = [kind |-> "array", items |-> << >>]
    /\ limit = Undefined
    /\ retryParam = NoRetryOptions
    /\ i = 0
    /\ chunks = << >>
    /\ index = 0
    /\ successItems = << >>
    /\ failedItems = << >>
    /\ bpc = "idle"
    /\ bOutcome = [kind |-> "none"]
    /\ admitted = 0
    /\ requests = << >>
    /\ authFailures = 0
    /\ unitLog = << >>

\* no listWithIterator run
ListIdle ==
    /\ serverTotal = 0
    /\ offset = 0
    /\ hasMore = FALSE
    /\ results = << >>
    /\ total = 0
    /\ page = 0
    /\ failedPages = << >>
    /\ usePageToken = FALSE
    /\ nextPageToken = Undefined

\* how the call of one chunk or page ended: it threw, the server refused it
\* with a non-success code, or it was answered
UnitThrew(k, e) ==
    [index |-> k, kind |-> "threw", code |-> "", msg |-> e.msg, items |-> << >>]

UnitRefused(k, res) ==
    [index |-> k, kind |-> "refused", code |-> res.code, msg |-> <<res.msg>>, items |-> << >>]

UnitAnswered(k, items) ==
    [index |-> k, kind |-> "answered", code |-> "0", msg |-> << >>, items |-> items]

RetryReset ==
    /\ retryOptions' = NoRetryOptions
    /\ attempt' = 0
    /\ fnCalls' = 0
    /\ delays' = << >>
    /\ lastError' = Undefined
    /\ errLog' = << >>
    /\ rpc' = "idle"
    /\ rOutcome' = Undefined

\* mutant: an empty array is not returned early but sent as one empty chunk
BatchValidate_EmptyIsSent ==
    /\ bpc = "start"
    /\ IF input.kind # "array"
       THEN /\ bpc' = "done"
            /\ bOutcome' = [kind |-> "thrown", error |-> PlainError(<<"parameter must be an array">>)]
            /\ UNCHANGED <<chunks, index>>
       ELSE IF Len(input.items) = 0
       THEN /\ bpc' = "next"
            /\ chunks' = <<input.items>>
            /\ index' = 1
            /\ UNCHANGED bOutcome
       ELSE /\ bpc' = "chunking"
            /\ UNCHANGED <<bOutcome, chunks, index>>
    /\ UNCHANGED <<listVars, unitLog, op, input, limit, retryParam, i,
                   successItems,
                   failedItems, admitted, requests, authFailures>>
    /\ UNCHANGED <<retryVars, tokenVars>>

\* mutant: the parameter is not checked, what is not an array counts as empty
BatchValidate_NoArrayCheck ==
    /\ bpc = "start"
    /\ IF input.kind # "array" \/ Len(input.items) = 0
       THEN /\ bpc' = "done"
            /\ bOutcome' = [kind |-> "returned", value |-> BatchResult(<< >>, << >>, << >>)]
       ELSE /\ bpc' = "chunking"
            /\ UNCHANGED bOutcome
    /\ UNCHANGED <<listVars, unitLog, op, input, limit, retryParam, i, chunks, index,
                   successItems,
                   failedItems, admitted, requests, authFailures>>
    /\ UNCHANGED <<retryVars, tokenVars>>

\* lines 742-751 (and copies): the parameter check and the empty-array return
BatchValidate ==
    /\ bpc = "start"
    /\ IF input.kind # "array"
       THEN /\ bpc' = "done"
            /\ bOutcome' = [kind |-> "thrown", error |-> PlainError(<<"parameter must be an array">>)]
       ELSE IF Len(input.items) = 0
       THEN /\ bpc' = "done"
            /\ bOutcome' = [kind |-> "returned", value |-> BatchResult(<< >>, << >>, << >>)]
       ELSE /\ bpc' = "chunking"
            /\ UNCHANGED bOutcome
    /\ UNCHANGED <<listVars, unitLog, op, input, limit, retryParam, i, chunks, index,
                   successItems,
                   failedItems, admitted, requests, authFailures>>
    /\ UNCHANGED <<retryVars, tokenVars>>

\* lines 753-757 (and copies): one turn of the chunking loop, or its end
BatchChunking ==
    /\ bpc = "chunking"
    /\ IF i < Len(input.items)
       THEN /\ Len(chunks) < MaxChunks
            /\ chunks' = Append(chunks, Slice(input.items, i, i + ChunkSizeOf(op, limit)))
            /\ i' = i + ChunkSizeOf(op, limit)
            /\ UNCHANGED <<bpc, index>>
       ELSE /\ bpc' = "next"
            /\ index' = 1
            /\ UNCHANGED <<chunks, i>>
    /\ UNCHANGED <<listVars, unitLog, op, input, limit, retryParam, successItems,
                   failedItems, bOutcome, admitted, requests, authFailures>>
    /\ UNCHANGED <<retryVars, tokenVars>>

\* mutant: the chunk loop is left as soon as something has failed
BatchNextChunk_StopsAfterFailure ==
    /\ bpc = "next"
    /\ IF index <= Len(chunks) /\ failedItems = << >>
       THEN /\ IF op \in ExchangeOps
               THEN RetryEnter(retryParam) /\ bpc' = "retry"
               ELSE bpc' = "admit" /\ UNCHANGED retryVars
            /\ UNCHANGED bOutcome
       ELSE /\ bpc' = "done"
            /\ bOutcome' = [kind |-> "returned",
                            value |-> BatchResult(input.items, successItems, failedItems)]
            /\ UNCHANGED retryVars
    /\ UNCHANGED <<listVars, unitLog, op, input, limit, retryParam, i, chunks, index,
                   successItems,
                   failedItems, admitted, requests, authFailures>>
    /\ UNCHANGED tokenVars

\* mutant: the chunk call of batchExchange is made without retries
BatchNextChunk_ExchangeNotRetried ==
    /\ bpc = "next"
    /\ IF index <= Len(chunks)
       THEN /\ IF op \in ExchangeOps
               THEN /\ RetryEnter([retryParam EXCEPT !.maxRetries = Some(0)])
                    /\ bpc' = "retry"
               ELSE bpc' = "admit" /\ UNCHANGED retryVars
            /\ UNCHANGED bOutcome
       ELSE /\ bpc' = "done"
            /\ bOutcome' = [kind |-> "returned",
                            value |-> BatchResult(input.items, successItems, failedItems)]
            /\ UNCHANGED retryVars
    /\ UNCHANGED <<listVars, unitLog, op, input, limit, retryParam, i, chunks, index,
                   successItems,
                   failedItems, admitted, requests, authFailures>>
    /\ UNCHANGED tokenVars

\* lines 764-766 / 1229-1233: the head of the chunk loop; lines 814-824 after it
BatchNextChunk ==
    /\ bpc = "next"
    /\ IF index <= Len(chunks)
       THEN /\ IF op \in ExchangeOps
               THEN RetryEnter(retryParam) /\ bpc' = "retry"
               ELSE bpc' = "admit" /\ UNCHANGED retryVars
            /\ UNCHANGED bOutcome
       ELSE /\ bpc' = "done"
            /\ bOutcome' = [kind |-> "returned",
                            value |-> BatchResult(input.items, successItems, failedItems)]
            /\ UNCHANGED retryVars
    /\ UNCHANGED <<listVars, unitLog, op, input, limit, retryParam, i, chunks, index,
                   successItems,
                   failedItems, admitted, requests, authFailures>>
    /\ UNCHANGED tokenVars

\* lines 83-85 inside batchExchange: the retry loop invokes the chunk call
ExchangeAttempt ==
    /\ bpc = "retry"
    /\ RetryLoop
    /\ bpc' = IF rpc' = "await" THEN "admit" ELSE "retry"
    /\ UNCHANGED <<listVars, unitLog, op, input, limit, retryParam, i, chunks, index,
                   successItems,
                   failedItems, bOutcome, admitted, requests, authFailures>>
    /\ UNCHANGED tokenVars

\* functionLimiter admits the chunk call (lines 768, 867, 1022, 1235, 1392)
LimiterAdmit ==
    /\ bpc = "admit"
    /\ admitted' = admitted + 1
    /\ bpc' = "ensure"
    /\ UNCHANGED <<listVars, unitLog, op, input, limit, retryParam, i, chunks, index,
                   successItems,
                   failedItems, bOutcome, requests, authFailures>>
    /\ UNCHANGED <<retryVars, tokenVars>>

\* mutant: the call wrapped by the limiter asks the limiter again before
\* its credential check
UnitEnsureToken_AdmitsAgain ==
    /\ bpc = "ensure"
    /\ EnsureTokenValid(BatchTask)
    /\ bpc' = "token"
    /\ admitted' = admitted + 1
    /\ UNCHANGED ensureCalls
    /\ UNCHANGED <<listVars, unitLog, op, input, limit, retryParam, i, chunks, index,
                   successItems,
                   failedItems, bOutcome, requests, authFailures>>
    /\ UNCHANGED retryVars

\* await this.ensureTokenValid() of the chunk call (lines 709, 868, 1023, 1236, 1393)
UnitEnsureToken ==
    /\ bpc = "ensure"
    /\ EnsureTokenValid(BatchTask)
    /\ bpc' = "token"
    /\ UNCHANGED ensureCalls
    /\ UNCHANGED <<listVars, unitLog, op, input, limit, retryParam, i, chunks, index,
                   successItems,
                   failedItems, bOutcome, admitted, requests, authFailures>>
    /\ UNCHANGED retryVars

UnitTokenAnswered ==
    /\ bpc = "token"
    /\ \E res \in BatchTokenResponses : GetAccessTokenAnswered(BatchTask, res)
    /\ UNCHANGED <<retryVars, batchVars, listVars>>

UnitTokenRejected ==
    /\ bpc = "token"
    /\ GetAccessTokenRejected(BatchTask, AxiosNoResponse("ECONNRESET", <<"network error">>))
    /\ UNCHANGED <<retryVars, batchVars, listVars>>

\* mutant: the retry loop runs inside the admitted call, so a failed
\* attempt of batchExchange keeps its admission
UnitFails_KeepsAdmission(e) ==
    /\ admitted' = IF op \in ExchangeOps THEN admitted ELSE admitted - 1
    /\ IF op \in ExchangeOps
       THEN /\ RetryFnRejected(e)
            /\ bpc' = "retry"
            /\ UNCHANGED <<successItems, failedItems, index, unitLog>>
       ELSE /\ failedItems' = failedItems \o ChunkFailedEntries(op, CurrentChunk, e.msg)
            /\ unitLog' = Append(unitLog, UnitThrew(index, e))
            /\ index' = index + 1
            /\ bpc' = "next"
            /\ UNCHANGED <<retryVars, successItems>>

\* the chunk call ends by throwing e: the limiter lets go; executeWithRetry
\* catches it (batchExchange) or the chunk loop's catch does (lines 801-811)
UnitFails(e) ==
    /\ admitted' = admitted - 1
    /\ IF op \in ExchangeOps
       THEN /\ RetryFnRejected(e)
            /\ bpc' = "retry"
            /\ UNCHANGED <<successItems, failedItems, index, unitLog>>
       ELSE /\ failedItems' = failedItems \o ChunkFailedEntries(op, CurrentChunk, e.msg)
            /\ unitLog' = Append(unitLog, UnitThrew(index, e))
            /\ index' = index + 1
            /\ bpc' = "next"
            /\ UNCHANGED <<retryVars, successItems>>

\* mutant: the request for the chunk is sent and the loop goes on without
\* awaiting its answer
UnitSendRequest_NotAwaited ==
    /\ bpc = "token"
    /\ op \in RecordOps \cup ExchangeOps
    /\ tpc[BatchTask] = "returned"
    /\ EnsureTokenValidDone(BatchTask)
    /\ requests' = Append(requests, [index |-> index, size |-> Len(CurrentChunk)])
    /\ bpc' = "next"
    /\ index' = index + 1
    /\ UNCHANGED <<listVars, unitLog, op, input, limit, retryParam, i, chunks,
                   successItems, failedItems, bOutcome, admitted, authFailures>>
    /\ RetryReset

\* ensureTokenValid returned: the request for the chunk is sent
\* (lines 713-719, 870, 1025-1028, 1238-1248, 1395-1406)
UnitSendRequest ==
    /\ bpc = "token"
    /\ op \in RecordOps \cup ExchangeOps
    /\ tpc[BatchTask] = "returned"
    /\ EnsureTokenValidDone(BatchTask)
    /\ requests' = Append(requests, [index |-> index, size |-> Len(CurrentChunk)])
    /\ bpc' = "request"
    /\ UNCHANGED <<listVars, unitLog, op, input, limit, retryParam, i, chunks, index,
                   successItems,
                   failedItems, bOutcome, admitted, authFailures>>
    /\ UNCHANGED retryVars

\* ensureTokenValid threw: no request is sent and the chunk call throws
UnitTokenThrew ==
    /\ bpc = "token"
    /\ op \in RecordOps \cup ExchangeOps
    /\ tpc[BatchTask] = "threw"
    /\ EnsureTokenValidDone(BatchTask)
    /\ authFailures' = authFailures + 1
    /\ UnitFails(tErr[BatchTask][1])
    /\ UNCHANGED <<listVars, op, input, limit, retryParam, i, chunks, bOutcome, requests>>

\* the request for the chunk rejects
UnitRequestRejected ==
    /\ bpc = "request"
    /\ op \in RecordOps \cup ExchangeOps
    /\ \E e \in RequestErrors : UnitFails(e)
    /\ UNCHANGED <<listVars, op, input, limit, retryParam, i, chunks, bOutcome, requests,
                   authFailures>>
    /\ UNCHANGED tokenVars

\* lines 775-797, 928-950, 1088-1110: create/update/delete look at the answer
RecordAnswerHandled(res) ==
    /\ IF res.code # "0"
       THEN /\ failedItems' =
                  failedItems \o ChunkFailedEntries(op, CurrentChunk, MsgOrFallback(op, res))
            /\ unitLog' = Append(unitLog, UnitRefused(index, res))
            /\ UNCHANGED successItems
       ELSE IF res.data # Undefined
       THEN /\ successItems' = successItems \o SelectItems(op, res.data[1].items, TRUE)
            /\ failedItems' = failedItems \o SelectItems(op, res.data[1].items, FALSE)
            /\ unitLog' = Append(unitLog, UnitAnswered(index, res.data[1].items))
       ELSE /\ unitLog' = Append(unitLog, UnitAnswered(index, << >>))
            /\ UNCHANGED <<successItems, failedItems>>
    /\ index' = index + 1
    /\ bpc' = "next"
    /\ UNCHANGED retryVars

\* lines 1253-1258, 1411-1416: the chunk call of batchExchange looks at the answer
ExchangeAnswerHandled(res) ==
    /\ IF res.code # "0"
       THEN RetryFnRejected(PlainError(MsgOrFallback(op, res)))
       ELSE RetryFnResolved(OrDefault(res.data, << >>))
    /\ bpc' = "retry"
    /\ UNCHANGED <<successItems, failedItems, index, unitLog>>

\* the request for the chunk is answered
UnitRequestAnswered ==
    /\ bpc = "request"
    /\ op \in RecordOps \cup ExchangeOps
    /\ admitted' = admitted - 1
    /\ \E res \in ChunkAnswers(op, CurrentChunk) :
          IF op \in ExchangeOps THEN ExchangeAnswerHandled(res) ELSE RecordAnswerHandled(res)
    /\ UNCHANGED <<listVars, op, input, limit, retryParam, i, chunks, bOutcome, requests,
                   authFailures>>
    /\ UNCHANGED tokenVars

\* line 111 inside batchExchange: the backoff delay has passed
ExchangeBackoff ==
    /\ bpc = "retry"
    /\ RetryWake
    /\ UNCHANGED <<tokenVars, batchVars, listVars>>

\* lines 1266-1279, 1424-1437: executeWithRetry returned or threw
ExchangeSettled ==
    /\ bpc = "retry"
    /\ rpc \in {"returned", "thrown"}
    /\ IF rpc = "returned"
       THEN /\ successItems' = successItems \o rOutcome[1]
            /\ unitLog' = Append(unitLog, UnitAnswered(index, rOutcome[1]))
            /\ UNCHANGED failedItems
       ELSE /\ failedItems' = failedItems \o ChunkFailedEntries(op, CurrentChunk, rOutcome[1].msg)
            /\ unitLog' = Append(unitLog, UnitThrew(index, rOutcome[1]))
            /\ UNCHANGED successItems
    /\ index' = index + 1
    /\ bpc' = "next"
    /\ RetryReset
    /\ UNCHANGED <<listVars, op, input, limit, retryParam, i, chunks, bOutcome, admitted,
                   requests, authFailures>>
    /\ UNCHANGED tokenVars

(* ---------------------- object.listWithIterator ----------------------- *)

\* lines 298, 348: `params?.limit ?? 50`
DefaultPageLimit == 50

PageLimit == OrDefault(limit, DefaultPageLimit)

\* the limit a caller of listWithIterator passes: none or a positive number
ListLimits == {l \in Limits : l = Undefined \/ l[1] >= 1}

ServerTotals == (0..MaxTotal) \cup {ExampleTotal}

\* the objects of the server, numbered from 1
ServerItems == [k \in 1..serverTotal |-> k]

\* the bodies the objects/list endpoint answers a page with
PageAnswers(off, lim) ==
    FailureEnvelopes
      \cup {[code |-> "0", msg |-> "success", data |-> Undefined]}
      \cup {[code |-> "0", msg |-> "success",
              data |-> Some([items |-> Slice(ServerItems, off, off + lim),
                             total |-> serverTotal])]}

\* mutant: a page that ends exactly at the total is not the last
HasMore_Inclusive(off, lim, tot) == off + lim <= tot

\* lines 320-321: currentEnd < total
HasMore(off, lim, tot) == off + lim < tot

\* lines 317-331: what object.list returns for the body res of its request
ObjectList(off, lim, res) ==
    [code |-> res.code,
     items |-> IF res.data = Undefined THEN << >> ELSE res.data[1].items,
     total |-> IF res.data = Undefined THEN 0 ELSE res.data[1].total,
     msg |-> res.msg,
     has_more |-> HasMore(off, lim, IF res.data = Undefined THEN 0 ELSE res.data[1].total)]

Digits == <<"0", "1", "2", "3", "4", "5", "6", "7", "8", "9">>

\* Number.prototype.toString of a non-negative integer
RECURSIVE NumberToString(_)
NumberToString(n) ==
    IF n < 10 THEN Digits[n + 1] ELSE NumberToString(n \div 10) \o Digits[(n % 10) + 1]

\* mutant: the failed field is always set, empty when no page failed
ListResult_FailedAlwaysSet ==
    [code |-> NumberToString(Len(failedPages)),
     msg |-> IF Len(failedPages) = 0 THEN <<"Success">>
             ELSE <<"Completed with", NumberToString(Len(failedPages)), "failed page(s)">>,
     items |-> results,
     total |-> total,
     failed |-> Some(failedPages)]

\* lines 432-450: the value listWithIterator returns
ListResult ==
    [code |-> NumberToString(Len(failedPages)),
     msg |-> IF Len(failedPages) = 0 THEN <<"Success">>
             ELSE <<"Completed with", NumberToString(Len(failedPages)), "failed page(s)">>,
     items |-> results,
     total |-> total,
     failed |-> IF Len(failedPages) > 0 THEN Some(failedPages) ELSE Undefined]

PageAnswered(k, r) ==
    [index |-> k, kind |-> "answered", code |-> r.code, msg |-> << >>, items |-> r.items,
     total |-> r.total]

\* lines 361-363: the loop test and the call of object.list; lines 432-450 after it
ListLoop ==
    /\ bpc = "page"
    /\ op = "list"
    /\ IF hasMore
       THEN /\ page < MaxPages
            /\ bpc' = "ensure"
            /\ UNCHANGED bOutcome
       ELSE /\ bpc' = "done"
            /\ bOutcome' = [kind |-> "returned", value |-> ListResult]
    /\ UNCHANGED <<listVars, unitLog, op, input, limit, retryParam, i, chunks, index,
                   successItems, failedItems, admitted, requests, authFailures>>
    /\ UNCHANGED <<retryVars, tokenVars>>

\* lines 305-312: ensureTokenValid returned and the page is requested
ListSendRequest ==
    /\ bpc = "token"
    /\ op = "list"
    /\ tpc[BatchTask] = "returned"
    /\ EnsureTokenValidDone(BatchTask)
    /\ requests' = Append(requests, [index |-> page + 1, offset |-> offset, limit |-> PageLimit])
    /\ bpc' = "request"
    /\ UNCHANGED <<listVars, unitLog, op, input, limit, retryParam, i, chunks, index,
                   successItems, failedItems, bOutcome, admitted, authFailures>>
    /\ UNCHANGED retryVars

\* mutant: a failed page is recorded but the offset stays
PageFailed_OffsetStays(code, msg) ==
    /\ failedPages' = Append(failedPages, [offset |-> offset, limit |-> PageLimit,
                                           code |-> code, msg |-> msg])
    /\ offset' = offset
    /\ page' = page + 1
    /\ bpc' = "page"
    /\ UNCHANGED <<results, total, serverTotal, usePageToken, nextPageToken>>

\* lines 371-380 and 412-421: a FailedPage entry is pushed, offset and page advance
PageFailed(code, msg) ==
    /\ failedPages' = Append(failedPages, [offset |-> offset, limit |-> PageLimit,
                                           code |-> code, msg |-> msg])
    /\ offset' = offset + PageLimit
    /\ page' = page + 1
    /\ bpc' = "page"
    /\ UNCHANGED <<results, total, serverTotal, usePageToken, nextPageToken>>

\* lines 410-429: object.list threw e
PageThrew(e) ==
    /\ PageFailed("1", e.msg)
    /\ hasMore' = IF total = 0 THEN FALSE ELSE offset + PageLimit < total
    /\ unitLog' = Append(unitLog, UnitThrew(page + 1, e))

\* line 300: ensureTokenValid threw inside object.list
ListTokenThrew ==
    /\ bpc = "token"
    /\ op = "list"
    /\ tpc[BatchTask] = "threw"
    /\ EnsureTokenValidDone(BatchTask)
    /\ authFailures' = authFailures + 1
    /\ PageThrew(tErr[BatchTask][1])
    /\ UNCHANGED <<op, input, limit, retryParam, i, chunks, index, successItems,
                   failedItems, bOutcome, admitted, requests>>
    /\ UNCHANGED retryVars

\* line 310: the request of object.list rejects
ListRequestRejected ==
    /\ bpc = "request"
    /\ op = "list"
    /\ \E e \in RequestErrors : PageThrew(e)
    /\ UNCHANGED <<op, input, limit, retryParam, i, chunks, index, successItems,
                   failedItems, bOutcome, admitted, requests, authFailures>>
    /\ UNCHANGED <<retryVars, tokenVars>>

\* lines 369-409: the iterator looks at what object.list returned
PageHandled(r, res) ==
    IF r.code # "0"
    THEN /\ PageFailed(r.code, IF r.msg # "" THEN <<r.msg>>
                                ELSE <<"Query failed with code", r.code>>)
         /\ unitLog' = Append(unitLog, UnitRefused(page + 1, res))
         /\ UNCHANGED hasMore
    ELSE /\ page' = page + 1
         /\ results' = results \o r.items
         /\ total' = r.total
         /\ hasMore' = r.has_more
         /\ offset' = offset + PageLimit
         /\ unitLog' = Append(unitLog, PageAnswered(page + 1, r))
         /\ bpc' = "page"
         /\ UNCHANGED <<failedPages, serverTotal, usePageToken, nextPageToken>>

\* the request of object.list is answered
ListPageAnswered ==
    /\ bpc = "request"
    /\ op = "list"
    /\ \E res \in PageAnswers(offset, PageLimit) :
          PageHandled(ObjectList(offset, PageLimit, res), res)
    /\ UNCHANGED <<op, input, limit, retryParam, i, chunks, index, successItems,
                   failedItems, bOutcome, admitted, requests, authFailures>>
    /\ UNCHANGED <<retryVars, tokenVars>>

(* ------------------- object.search.recordsWithIterator ---------------- *)

\* the next_page_token of an answer: absent, empty, the text 'null', or a token
NextPageTokens == {Undefined, Some(""), Some("null"), Some("tok")}

\* the total of an answer: absent or a number
SearchTotals == {Undefined, Some(2), Some(5)}

\* the bodies the records_query endpoint answers page k with
SearchAnswers(k) ==
    FailureEnvelopes
      \cup {[code |-> "0", msg |-> "success", data |-> Undefined]}
      \cup {[code |-> "0", msg |-> "success",
              data |-> Some([items |-> <<k>>, total |-> t, next_page_token |-> n])] :
                t \in SearchTotals, n \in NextPageTokens}

\* the caller's data (line 554) as far as the iterator looks at it: its
\* page_token, absent or the caller's own
SearchQueries ==
    {[kind |-> "query", items |-> << >>, page_token |-> p] : p \in {Undefined, Some("mine")}}

\* truthiness of a string or undefined
Truthy(tok) == tok # Undefined /\ tok[1] # ""

\* mutant: with use_page_token the token is passed on as it is, none on page one
PageTokenSent_NoEmptyDefault ==
    IF usePageToken THEN nextPageToken
    ELSE IF Truthy(nextPageToken) THEN nextPageToken
    ELSE input.page_token

\* lines 567-573: the page_token of the request, << >> when the field is absent:
\* the caller's data is copied and page_token set over it
PageTokenSent ==
    IF usePageToken THEN Some(IF Truthy(nextPageToken) THEN nextPageToken[1] ELSE "")
    ELSE IF Truthy(nextPageToken) THEN nextPageToken
    ELSE input.page_token

\* mutant: the text 'null' counts as a token
TokenHasMore_NullIsAToken(tok) == Truthy(tok)

\* line 603
TokenHasMore(tok) == Truthy(tok) /\ tok[1] # "null"

\* the log entry of a page answered with body res
SearchAnswered(k, res) ==
    [index |-> k, kind |-> "answered", code |-> res.code, msg |-> << >>,
     items |-> IF res.data # Undefined THEN res.data[1].items ELSE << >>,
     token |-> IF res.data # Undefined THEN res.data[1].next_page_token ELSE Undefined,
     total |-> IF res.data # Undefined THEN res.data[1].total ELSE Undefined]

\* lines 565-566, 617: the loop test and the call through the limiter, or the return
SearchLoop ==
    /\ bpc = "page"
    /\ op = "search"
    /\ IF hasMore
       THEN /\ page < MaxPages
            /\ bpc' = "admit"
            /\ UNCHANGED bOutcome
       ELSE /\ bpc' = "done"
            /\ bOutcome' = [kind |-> "returned", value |-> [total |-> total, items |-> results]]
    /\ UNCHANGED <<listVars, unitLog, op, input, limit, retryParam, i, chunks, index,
                   successItems, failedItems, admitted, requests, authFailures>>
    /\ UNCHANGED <<retryVars, tokenVars>>

\* lines 567-578, 530-540: ensureTokenValid returned and the page is requested
SearchSendRequest ==
    /\ bpc = "token"
    /\ op = "search"
    /\ tpc[BatchTask] = "returned"
    /\ EnsureTokenValidDone(BatchTask)
    /\ requests' = Append(requests, [index |-> page + 1, page_token |-> PageTokenSent])
    /\ bpc' = "request"
    /\ UNCHANGED <<listVars, unitLog, op, input, limit, retryParam, i, chunks, index,
                   successItems, failedItems, bOutcome, admitted, authFailures>>
    /\ UNCHANGED retryVars

\* the page call throws e: the limiter lets go and, nothing catching it, the
\* iterator throws e (lines 565-615)
SearchThrows(e) ==
    /\ admitted' = admitted - 1
    /\ bOutcome' = [kind |-> "thrown", error |-> e]
    /\ bpc' = "done"
    /\ UNCHANGED <<listVars, op, input, limit, retryParam, i, chunks, index, successItems,
                   failedItems, requests>>
    /\ UNCHANGED retryVars

\* line 532: ensureTokenValid threw inside search.records
SearchTokenThrew ==
    /\ bpc = "token"
    /\ op = "search"
    /\ tpc[BatchTask] = "threw"
    /\ EnsureTokenValidDone(BatchTask)
    /\ authFailures' = authFailures + 1
    /\ unitLog' = Append(unitLog, UnitThrew(page + 1, tErr[BatchTask][1]))
    /\ SearchThrows(tErr[BatchTask][1])

\* line 536: the request of search.records rejects
SearchRequestRejected ==
    /\ bpc = "request"
    /\ op = "search"
    /\ \E e \in RequestErrors :
          /\ unitLog' = Append(unitLog, UnitThrew(page + 1, e))
          /\ SearchThrows(e)
    /\ UNCHANGED authFailures
    /\ UNCHANGED tokenVars

\* mutant: a refused page is skipped and the loop goes on
SearchPageHandled_RefusalSkipped(res) ==
    /\ page' = page + 1
    /\ IF res.code # "0"
       THEN /\ unitLog' = Append(unitLog, UnitRefused(page + 1, res))
            /\ UNCHANGED <<results, total, nextPageToken, hasMore>>
       ELSE /\ results' = IF res.data # Undefined THEN results \o res.data[1].items ELSE results
            /\ total' = IF res.data # Undefined /\ res.data[1].total # Undefined
                         THEN res.data[1].total[1] ELSE total
            /\ nextPageToken' = IF res.data # Undefined THEN res.data[1].next_page_token
                                 ELSE Undefined
            /\ hasMore' = TokenHasMore(nextPageToken')
            /\ unitLog' = Append(unitLog, SearchAnswered(page + 1, res))
    /\ admitted' = admitted - 1
    /\ bpc' = "page"
    /\ UNCHANGED <<serverTotal, offset, failedPages, usePageToken>>
    /\ UNCHANGED <<op, input, limit, retryParam, i, chunks, index, successItems,
                   failedItems, bOutcome, requests>>
    /\ UNCHANGED retryVars

\* lines 580-613: the page call looks at the answer
SearchPageHandled(res) ==
    IF res.code # "0"
    THEN /\ unitLog' = Append(unitLog, UnitRefused(page + 1, res))
         /\ SearchThrows(PlainError(IF res.msg # "" THEN <<res.msg>>
                                     ELSE <<"Query failed with code", res.code>>))
    ELSE /\ page' = page + 1
         /\ results' = IF res.data # Undefined THEN results \o res.data[1].items ELSE results
         /\ total' = IF res.data # Undefined /\ res.data[1].total # Undefined
                      THEN res.data[1].total[1] ELSE total
         /\ nextPageToken' = IF res.data # Undefined THEN res.data[1].next_page_token
                              ELSE Undefined
         /\ hasMore' = TokenHasMore(nextPageToken')
         /\ unitLog' = Append(unitLog, SearchAnswered(page + 1, res))
         /\ admitted' = admitted - 1
         /\ bpc' = "page"
         /\ UNCHANGED <<serverTotal, offset, failedPages, usePageToken>>
         /\ UNCHANGED <<op, input, limit, retryParam, i, chunks, index, successItems,
                        failedItems, bOutcome, requests>>
         /\ UNCHANGED retryVars

\* the request of search.records is answered
SearchPageAnswered ==
    /\ bpc = "request"
    /\ op = "search"
    /\ \E res \in SearchAnswers(page + 1) : SearchPageHandled(res)
    /\ UNCHANGED authFailures
    /\ UNCHANGED tokenVars

(* --- page / global.options / global.variables . listWithIterator ------ *)

\* the iterators of lines 1529-1572, 1853-1902 and 1972-2021, alike but for
\* the list endpoint they call
OffsetOps == {"pages", "options", "variables"}

\* lines 1530, 1854, 1973: `params?.limit || 100`
DefaultOffsetLimit == 100

OffsetLimit == IF limit = Undefined \/ limit[1] = 0 THEN DefaultOffsetLimit ELSE limit[1]

\* the limit a caller passes: none, or a number from 0 on
OffsetLimits == {l \in Limits : l = Undefined \/ l[1] >= 0}

\* the bodies a list endpoint answers a page with: a refusal, success
\* without data, or the server's total with up to lim of its items from off on
OffsetPageAnswers(off, lim) ==
    FailureEnvelopes
      \cup {[code |-> "0", msg |-> "success", data |-> Undefined]}
      \cup {[code |-> "0", msg |-> "success",
              data |-> Some([items |-> Slice(ServerItems, off, off + n),
                             total |-> serverTotal])] : n \in 0..Min(lim, MaxTotal)}

\* the log entry of a page answered with body res
OffsetAnswered(k, res) ==
    [index |-> k, kind |-> "answered", code |-> res.code, msg |-> << >>,
     items |-> IF res.data # Undefined THEN res.data[1].items ELSE << >>,
     total |-> IF res.data # Undefined THEN res.data[1].total ELSE 0]

\* lines 1537-1538 and 1570-1572: the body of the do-while runs once, then
\* for as long as results.length < total; after it the iterator returns
OffsetLoop ==
    /\ bpc = "page"
    /\ op \in OffsetOps
    /\ IF page = 0 \/ Len(results) < total
       THEN /\ page < MaxPages
            /\ bpc' = "admit"
            /\ UNCHANGED bOutcome
       ELSE /\ bpc' = "done"
            /\ bOutcome' = [kind |-> "returned", value |-> [total |-> total, items |-> results]]
    /\ UNCHANGED <<listVars, unitLog, op, input, limit, retryParam, i, chunks, index,
                   successItems, failedItems, admitted, requests, authFailures>>
    /\ UNCHANGED <<retryVars, tokenVars>>

\* lines 1500-1515 (1823-1839, 1942-1958): ensureTokenValid returned and the
\* page is requested
OffsetSendRequest ==
    /\ bpc = "token"
    /\ op \in OffsetOps
    /\ tpc[BatchTask] = "returned"
    /\ EnsureTokenValidDone(BatchTask)
    /\ requests' = Append(requests, [index |-> page + 1, offset |-> offset,
                                     limit |-> OffsetLimit])
    /\ bpc' = "request"
    /\ UNCHANGED <<listVars, unitLog, op, input, limit, retryParam, i, chunks, index,
                   successItems, failedItems, bOutcome, admitted, authFailures>>
    /\ UNCHANGED retryVars

\* the page call throws e: the limiter lets go and, nothing catching it, the
\* iterator throws e (lines 1537-1570)
OffsetThrows(e) ==
    /\ admitted' = admitted - 1
    /\ bOutcome' = [kind |-> "thrown", error |-> e]
    /\ bpc' = "done"
    /\ UNCHANGED <<listVars, op, input, limit, retryParam, i, chunks, index, successItems,
                   failedItems, requests>>
    /\ UNCHANGED retryVars

\* mutant: a refused page is kept out of the result and the loop goes on
OffsetPageHandled_RefusalSkipped(res) ==
    /\ page' = page + 1
    /\ IF res.code # "0"
       THEN /\ unitLog' = Append(unitLog, UnitRefused(page + 1, res))
            /\ UNCHANGED <<results, total>>
       ELSE /\ results' = IF res.data # Undefined THEN results \o res.data[1].items ELSE results
            /\ total' = IF page' = 1
                         THEN (IF res.data # Undefined THEN res.data[1].total ELSE 0)
                         ELSE total
            /\ unitLog' = Append(unitLog, OffsetAnswered(page + 1, res))
    /\ offset' = offset + OffsetLimit
    /\ admitted' = admitted - 1
    /\ bpc' = "page"
    /\ UNCHANGED <<serverTotal, hasMore, failedPages, usePageToken, nextPageToken>>
    /\ UNCHANGED <<op, input, limit, retryParam, i, chunks, index, successItems,
                   failedItems, bOutcome, requests>>
    /\ UNCHANGED retryVars

\* lines 1541-1566: the page call looks at the answer
OffsetPageHandled(res) ==
    IF res.code # "0"
    THEN /\ unitLog' = Append(unitLog, UnitRefused(page + 1, res))
         /\ OffsetThrows(PlainError(IF res.msg # "" THEN <<res.msg>>
                                     ELSE <<"Fetch failed with code", res.code>>))
    ELSE /\ page' = page + 1
         /\ results' = IF res.data # Undefined THEN results \o res.data[1].items ELSE results
         /\ total' = IF page' = 1
                      THEN (IF res.data # Undefined THEN res.data[1].total ELSE 0)
                      ELSE total
         /\ offset' = offset + OffsetLimit
         /\ unitLog' = Append(unitLog, OffsetAnswered(page + 1, res))
         /\ admitted' = admitted - 1
         /\ bpc' = "page"
         /\ UNCHANGED <<serverTotal, hasMore, failedPages, usePageToken, nextPageToken>>
         /\ UNCHANGED <<op, input, limit, retryParam, i, chunks, index, successItems,
                        failedItems, bOutcome, requests>>
         /\ UNCHANGED retryVars

\* lines 1500, 1823, 1942: ensureTokenValid threw inside the list call
OffsetTokenThrew ==
    /\ bpc = "token"
    /\ op \in OffsetOps
    /\ tpc[BatchTask] = "threw"
    /\ EnsureTokenValidDone(BatchTask)
    /\ authFailures' = authFailures + 1
    /\ unitLog' = Append(unitLog, UnitThrew(page + 1, tErr[BatchTask][1]))
    /\ OffsetThrows(tErr[BatchTask][1])

\* lines 1506, 1834, 1953: the request of the list call rejects
OffsetRequestRejected ==
    /\ bpc = "request"
    /\ op \in OffsetOps
    /\ \E e \in RequestErrors :
          /\ unitLog' = Append(unitLog, UnitThrew(page + 1, e))
          /\ OffsetThrows(e)
    /\ UNCHANGED authFailures
    /\ UNCHANGED tokenVars

\* the request of the list call is answered
OffsetPageAnswered ==
    /\ bpc = "request"
    /\ op \in OffsetOps
    /\ \E res \in OffsetPageAnswers(offset, OffsetLimit) : OffsetPageHandled(res)
    /\ UNCHANGED authFailures
    /\ UNCHANGED tokenVars

(* ------- Spec: one batch operation or pagination run of a client ------ *)

\* the locals of a pagination run at its start (lines 350-357, 556-561)
PaginationStart ==
    /\ offset = 0
    /\ hasMore = TRUE
    /\ results = << >>
    /\ total = 0
    /\ page = 0
    /\ failedPages = << >>
    /\ nextPageToken = Undefined
    /\ bpc = "page"

Init ==
    /\ RetryIdle
    /\ disableTokenCache \in BOOLEAN
    /\ TokenIdle \/ TokenHeld
    /\ op \in RecordOps \cup ExchangeOps \cup {"list", "search"} \cup OffsetOps
    /\ CASE op = "list" ->
              /\ serverTotal \in ServerTotals
              /\ limit \in ListLimits
              /\ serverTotal > MaxTotal => (limit = Undefined /\ ~disableTokenCache)
              /\ usePageToken = FALSE
              /\ input = [kind |-> "array", items |-> << >>]
              /\ PaginationStart
         [] op = "search" ->
              /\ serverTotal = 0
              /\ limit = Undefined
              /\ usePageToken \in BOOLEAN
              /\ input \in SearchQueries
              /\ PaginationStart
         [] op \in OffsetOps ->
              /\ serverTotal \in 0..MaxTotal
              /\ limit \in OffsetLimits
              /\ usePageToken = FALSE
              /\ input = [kind |-> "array", items |-> << >>]
              /\ PaginationStart
         [] OTHER ->
              /\ ListIdle
              /\ input \in Inputs
              /\ Len(input.items) > MaxRecords => (op \in LargeInputOps /\ ~disableTokenCache)
              /\ Len(input.items) = ExampleInput => op = "create"
              /\ limit \in (IF op \in RecordOps /\ Len(input.items) <= MaxRecords
                             THEN Limits ELSE {Undefined})
              /\ bpc = "start"
    /\ retryParam \in (IF op \in ExchangeOps THEN RetryParams ELSE {NoRetryOptions})
    /\ i = 0
    /\ chunks = << >>
    /\ index = 0
    /\ successItems = << >>
    /\ failedItems = << >>
    /\ bOutcome = [kind |-> "none"]
    /\ admitted = 0
    /\ requests = << >>
    /\ authFailures = 0
    /\ unitLog = << >>

Next ==
    \/ BatchValidate
    \/ BatchChunking
    \/ BatchNextChunk
    \/ ExchangeAttempt
    \/ LimiterAdmit
    \/ UnitEnsureToken
    \/ UnitTokenAnswered
    \/ UnitTokenRejected
    \/ UnitSendRequest
    \/ UnitTokenThrew
    \/ UnitRequestRejected
    \/ UnitRequestAnswered
    \/ ExchangeBackoff
    \/ ExchangeSettled
    \/ ListLoop
    \/ ListSendRequest
    \/ ListTokenThrew
    \/ ListRequestRejected
    \/ ListPageAnswered
    \/ SearchLoop
    \/ SearchSendRequest
    \/ SearchTokenThrew
    \/ SearchRequestRejected
    \/ SearchPageAnswered
    \/ OffsetLoop
    \/ OffsetSendRequest
    \/ OffsetTokenThrew
    \/ OffsetRequestRejected
    \/ OffsetPageAnswered

Spec == Init /\ [][Next]_vars

(* --------- SpecToken: two tasks of one client calling init() ---------- *)

InitToken ==
    /\ RetryIdle
    /\ BatchIdle
    /\ ListIdle
    /\ disableTokenCache \in BOOLEAN
    /\ TokenIdle

\* Client.init (lines 200-203) calls ensureTokenValid
ClientInit(t) ==
    /\ ensureCalls[t] < MaxEnsureCalls
    /\ EnsureTokenValid(t)
    /\ ensureCalls' = [ensureCalls EXCEPT ![t] = @ + 1]
    /\ UNCHANGED <<retryVars, batchVars, listVars>>

TokenAnswered(t) ==
    /\ \E res \in TokenResponses : GetAccessTokenAnswered(t, res)
    /\ UNCHANGED <<retryVars, batchVars, listVars>>

TokenRejected(t) ==
    /\ \E e \in RequestErrors : GetAccessTokenRejected(t, e)
    /\ UNCHANGED <<retryVars, batchVars, listVars>>

ClientInitDone(t) ==
    /\ EnsureTokenValidDone(t)
    /\ UNCHANGED <<retryVars, batchVars, listVars>>

ClockTick ==
    /\ Tick
    /\ UNCHANGED <<retryVars, batchVars, listVars>>

NextToken ==
    \/ \E t \in Tasks : ClientInit(t)
    \/ \E t \in Tasks : TokenAnswered(t)
    \/ \E t \in Tasks : TokenRejected(t)
    \/ \E t \in Tasks : ClientInitDone(t)
    \/ ClockTick

SpecToken == InitToken /\ [][NextToken]_vars

(* ---- SpecAccess: one task calling init() and reading the accessors ---- *)

AccessorsRead ==
    /\ \E d \in ReadSkews : ReadAccessors(d)
    /\ UNCHANGED <<retryVars, batchVars, listVars>>

NextAccess ==
    \/ ClientInit(BatchTask)
    \/ TokenAnswered(BatchTask)
    \/ TokenRejected(BatchTask)
    \/ ClientInitDone(BatchTask)
    \/ ClockTick
    \/ AccessorsRead

SpecAccess == InitToken /\ [][NextAccess]_vars

(* ---------------- SpecRetry: executeWithRetry alone ------------------- *)

\* the failures of the wrapped operation, each tagged with the attempt that threw it
FnErrorsAt(n) ==
    {[e EXCEPT !.at = n] : e \in TransportErrors \cup BusinessErrors}

InitRetry ==
    /\ disableTokenCache = FALSE
    /\ TokenIdle
    /\ BatchIdle
    /\ ListIdle
    /\ retryOptions \in RetryOptionSets
    /\ attempt = 0
    /\ fnCalls = 0
    /\ delays = << >>
    /\ lastError = Undefined
    /\ errLog = << >>
    /\ rpc = "loop"
    /\ rOutcome = Undefined

FnInvoke ==
    /\ RetryLoop
    /\ UNCHANGED <<tokenVars, batchVars, listVars>>

\* the wrapped operation resolves, its value naming the attempt that made it
FnResolves ==
    /\ RetryFnResolved(<<"value", fnCalls>>)
    /\ UNCHANGED <<tokenVars, batchVars, listVars>>

FnRejects ==
    /\ \E e \in FnErrorsAt(fnCalls) : RetryFnRejected(e)
    /\ UNCHANGED <<tokenVars, batchVars, listVars>>

BackoffElapsed ==
    /\ RetryWake
    /\ UNCHANGED <<tokenVars, batchVars, listVars>>

NextRetry ==
    \/ FnInvoke
    \/ FnResolves
    \/ FnRejects
    \/ BackoffElapsed

SpecRetry == InitRetry /\ [][NextRetry]_vars

(* ========================= properties: Spec =========================== *)

BatchOps == RecordOps \cup ExchangeOps

\* a batch operation has returned its result
Returned == op \in BatchOps /\ bpc = "done" /\ bOutcome.kind = "returned"

\* the chunking loop has run to its end on a non-empty array
ChunkingDone ==
    /\ bpc \notin {"idle", "start", "chunking"}
    /\ input.kind = "array"
    /\ Len(input.items) > 0

RECURSIVE Concat(_)
Concat(ss) == IF ss = << >> THEN << >> ELSE Head(ss) \o Concat(Tail(ss))

\* C1 (as claimed): whatever the server answered, the result of a batch
\* operation satisfies successCount + failedCount = total.
C1_CountsAddUpToTotal ==
    Returned =>
        bOutcome.value.successCount + bOutcome.value.failedCount = bOutcome.value.total

\* C2: whatever the outcome of the chunk calls, `total` of the returned
\* result is the length of the caller's original array.
C2_TotalIsInputLength ==
    Returned => bOutcome.value.total = Len(input.items)

\* C2 witness: two chunks, one failed as a whole and one answered, and a
\* result whose lists do not add up to the total it reports
C2_Witness ==
    /\ Returned
    /\ Len(chunks) >= 2
    /\ bOutcome.value.failedCount > 0
    /\ bOutcome.value.successCount > 0
    /\ bOutcome.value.successCount + bOutcome.value.failedCount < Len(input.items)

\* C3: a non-empty input of length N is split, for chunk size C > 0 (100
\* when create/update/delete are given no limit), into exactly ceil(N/C)
\* contiguous chunks, all but the last of exactly C elements, the last
\* non-empty with at most C, which concatenate to the input.
C3_ChunksPartitionInput ==
    ChunkingDone =>
        LET N == Len(input.items)
            C == IF op \in RecordOps
                 THEN (IF limit = Undefined THEN 100 ELSE limit[1])
                 ELSE 200
            K == Len(chunks)
        IN  /\ C > 0
            /\ K = (N + C - 1) \div C
            /\ \A j \in 1..(K - 1) : Len(chunks[j]) = C
            /\ Len(chunks[K]) >= 1
            /\ Len(chunks[K]) <= C
            /\ \A j \in 1..K :
                  \A m \in 1..Len(chunks[j]) : chunks[j][m] = input.items[(j - 1) * C + m]
            /\ Concat(chunks) = input.items

\* C3 witness: three records with limit 2 became a chunk of 2 and a chunk of 1
C3_Witness ==
    /\ ChunkingDone
    /\ limit = Some(2)
    /\ Len(input.items) = 3
    /\ Len(chunks) = 2
    /\ Len(chunks[1]) = 2
    /\ Len(chunks[2]) = 1

\* C10 (as claimed): when credential issuance failed during the operation,
\* the operation ends by throwing that failure; it is never absorbed into a
\* returned result.
C10_AuthFailureIsThrown ==
    (bpc = "done" /\ authFailures > 0) => bOutcome.kind = "thrown"

\* the id an entry of `success` or `failed` carries
EntryId(x) == IF op \in ExchangeOps THEN x.id ELSE x._id

ChunkFailedAsAWhole(u) == u.kind \in {"threw", "refused"}

\* the step in which the call of a chunk of a batch operation ends
ChunkSettles == op \in BatchOps /\ Len(unitLog') = Len(unitLog) + 1

\* C13: in every batch operation, when the call for a chunk throws or
\* returns a non-success top-level code, every item of that chunk is
\* appended once to `failed` with that error's message (the server's msg, or
\* the text naming the code when it sent none) and nothing of the chunk goes
\* to `success`; neither list ever loses an entry (read by position in the
\* lists for every input, and by id for the inputs of up to MaxRecords items
\* whose entries carry their ids).  With 150 items and the
\* default chunk size 100, chunk 1 throwing and chunk 2 answered with all its
\* items successful, the result is failedCount 100, successCount 50, total 150.
C13_FailedChunkIsTotal ==
    [][/\ ChunkSettles =>
            LET u == unitLog'[Len(unitLog')]
                chunk == chunks[u.index]
            IN  /\ u.index = Len(unitLog')
                /\ ChunkFailedAsAWhole(u) =>
                      /\ successItems' = successItems
                      /\ Len(failedItems') = Len(failedItems) + Len(chunk)
                      /\ \A j \in 1..Len(chunk) :
                            LET f == failedItems'[Len(failedItems) + j] IN
                            /\ EntryId(f) = IF op = "create" THEN UnknownId ELSE chunk[j]
                            /\ IF u.kind = "threw" \/ u.msg # <<"">>
                               THEN f.error = u.msg
                               ELSE Len(f.error) = 2 /\ f.error[2] = u.code
       /\ op \in BatchOps =>
            /\ Len(failedItems') >= Len(failedItems)
            /\ SubSeq(failedItems', 1, Len(failedItems)) = failedItems
            /\ Len(successItems') >= Len(successItems)
            /\ SubSeq(successItems', 1, Len(successItems)) = successItems
       /\ (op \in BatchOps \ {"create"} /\ Len(input.items) <= MaxRecords) =>
            \A k \in 1..Len(unitLog') :
               ChunkFailedAsAWhole(unitLog'[k]) =>
                  \A j \in 1..Len(chunks[k]) :
                     /\ Cardinality({q \in 1..Len(failedItems') :
                                        EntryId(failedItems'[q]) = chunks[k][j]}) = 1
                     /\ \A q \in 1..Len(successItems') :
                            EntryId(successItems'[q]) # chunks[k][j]
       /\ (/\ Returned'
           /\ op = "create"
           /\ Len(input.items) = 150
           /\ limit = Undefined
           /\ unitLog[1].kind = "threw"
           /\ unitLog[2].kind = "answered"
           /\ Len(unitLog[2].items) = 50
           /\ \A j \in 1..50 : unitLog[2].items[j].success = "true") =>
              /\ bOutcome'.value.failedCount = 100
              /\ bOutcome'.value.successCount = 50
              /\ bOutcome'.value.total = 150]_vars

\* C13 witness: 150 records, chunk 1 threw, chunk 2 was answered in full
C13_Witness ==
    /\ Returned
    /\ op = "create"
    /\ Len(input.items) = ExampleInput
    /\ unitLog[1].kind = "threw"
    /\ unitLog[1].msg = <<"network error">>
    /\ unitLog[2].kind = "answered"
    /\ bOutcome.value.failedCount = DefaultLimit
    /\ bOutcome.value.successCount = ExampleInput - DefaultLimit
    /\ \A j \in 1..DefaultLimit : bOutcome.value.failed[j].error = <<"network error">>

\* C14: in every batch operation given a non-empty array, a call is issued
\* for every chunk, in order, whatever the earlier chunks ended with, and the
\* operation returns a result and never throws, even when every chunk failed.
C14_EveryChunkIsCalled ==
    (op \in BatchOps /\ input.kind = "array" /\ Len(input.items) > 0) =>
        /\ bOutcome.kind # "thrown"
        /\ Len(unitLog) <= Len(chunks)
        /\ \A k \in 1..Len(unitLog) : unitLog[k].index = k
        /\ bpc = "done" =>
              /\ bOutcome.kind = "returned"
              /\ Len(chunks) >= 1
              /\ Len(unitLog) = Len(chunks)

\* C14 witness: three chunks, the first threw, the second was refused, the
\* third threw, and the operation returned a result with everything failed
C14_Witness ==
    /\ Returned
    /\ Len(chunks) = 3
    /\ unitLog[1].kind = "threw"
    /\ unitLog[2].kind = "refused"
    /\ unitLog[3].kind = "threw"
    /\ bOutcome.value.successCount = 0
    /\ bOutcome.value.failedCount = Len(input.items)

\* C15: within one batch or pagination run the unit calls go one at a time
\* and in order: the request of chunk or page k+1 is sent, and the limiter
\* is asked for it, only when the outcomes of units 1..k are all recorded;
\* requests never go back to an earlier unit, only batchExchange sends more
\* than one request for a unit (its retries), and the run never holds two
\* admissions.
C15_UnitsOneAtATimeInOrder ==
    [][/\ admitted' \in {0, 1}
       /\ admitted' = admitted + 1 =>
            Len(unitLog) = (IF op \in BatchOps THEN index ELSE page + 1) - 1
       /\ requests' # requests =>
            LET r == requests'[Len(requests')] IN
            /\ requests' = Append(requests, r)
            /\ Len(unitLog) = r.index - 1
            /\ \A k \in 1..Len(requests) :
                  IF op \in ExchangeOps THEN requests[k].index <= r.index
                  ELSE requests[k].index < r.index
       /\ unitLog' # unitLog =>
            /\ Len(unitLog') = Len(unitLog) + 1
            /\ unitLog'[Len(unitLog')].index = Len(unitLog')
            /\ SubSeq(unitLog', 1, Len(unitLog)) = unitLog
            /\ bpc \in {"token", "request", "retry"}]_vars

\* C15 witness: the second page of a search run is in flight, the first
\* page's outcome being recorded
C15_Witness ==
    /\ op = "search"
    /\ bpc = "request"
    /\ Len(requests) = 2
    /\ Len(unitLog) = 1
    /\ unitLog[1].kind = "answered"
    /\ results = <<1>>
    /\ admitted = 1

\* no remote call of any kind is made in the step: no appToken request, no
\* limiter admission, no data request, and the credential store is untouched
NothingRemoteHappens ==
    /\ issued' = issued
    /\ tpc' = tpc
    /\ accessToken' = accessToken
    /\ expireTime' = expireTime
    /\ admitted' = 0
    /\ requests' = << >>
    /\ unitLog' = << >>

\* C16: a batch operation called with an empty array returns {total: 0,
\* success: [], failed: [], successCount: 0, failedCount: 0} and does
\* nothing else: no remote call, no credential refresh, no limiter
\* admission, and the stored credential stays as it was.
C16_EmptyInputReturnsAtOnce ==
    [][(op \in BatchOps /\ input.kind = "array" /\ Len(input.items) = 0) =>
         /\ NothingRemoteHappens
         /\ bpc = "start"
         /\ bpc' = "done"
         /\ bOutcome' = [kind |-> "returned",
                         value |-> [total |-> 0, success |-> << >>, failed |-> << >>,
                                    successCount |-> 0, failedCount |-> 0]]]_vars

\* C16 witness: batchExchange of no ids has returned, the client still
\* holding the credential of its init()
C16_Witness ==
    /\ op = "user"
    /\ input = [kind |-> "array", items |-> << >>]
    /\ bpc = "done"
    /\ bOutcome.kind = "returned"
    /\ bOutcome.value.total = 0
    /\ accessToken = Some(<<"token", StartNow + RefreshMargin>>)
    /\ issued = 1

\* C17: a batch operation called with a missing or non-array collection
\* throws a validation error in its first step, before any chunking, remote
\* call, credential refresh or limiter admission.
C17_NonArrayInputFailsAtOnce ==
    [][(op \in BatchOps /\ input.kind # "array") =>
         /\ NothingRemoteHappens
         /\ chunks' = << >>
         /\ i' = 0
         /\ bpc = "start"
         /\ bpc' = "done"
         /\ bOutcome'.kind = "thrown"
         /\ ~bOutcome'.error.isAxios
         /\ bOutcome'.error.msg = <<"parameter must be an array">>]_vars

\* C17 witness: delete.recordsWithIterator without ids has thrown
C17_Witness ==
    /\ op = "delete"
    /\ input.kind = "missing"
    /\ bpc = "done"
    /\ bOutcome.kind = "thrown"
    /\ issued = 0
    /\ accessToken = Undefined

\* C18 (as claimed): a batch operation given a limit <= 0 and a non-empty
\* array fails with an error; it neither loops without end nor works with
\* empty chunks: it builds no empty chunk, never more chunks than there are
\* items, and whenever it has ended it has thrown.
C18_NonPositiveLimitFails ==
    (op \in RecordOps /\ limit # Undefined /\ limit[1] <= 0
        /\ input.kind = "array" /\ Len(input.items) > 0) =>
        /\ \A j \in 1..Len(chunks) : chunks[j] # << >>
        /\ Len(chunks) <= Len(input.items)
        /\ bpc = "done" => bOutcome.kind = "thrown"

\* every page so far was answered successfully, reporting the server's total
AllPagesAnswered ==
    \A k \in 1..Len(unitLog) :
        unitLog[k].kind = "answered" /\ unitLog[k].total = serverTotal

\* max(1, ceil(T / L))
PagesNeeded(T, L) == IF T = 0 THEN 1 ELSE (T + L - 1) \div L

\* C19: object.listWithIterator, against a server that reports total T and
\* answers every page successfully, with limit L > 0 fetches exactly
\* max(1, ceil(T/L)) pages, at offsets 0, L, 2L, ... in that order, hasMore
\* being true after every page but the last, and returns the items of all
\* pages concatenated in fetch order (120 items over 3 pages for T = 120,
\* L = 50).
C19_ListFetchesEveryPageOnce ==
    (op = "list" /\ AllPagesAnswered) =>
        LET T == serverTotal
            L == IF limit = Undefined THEN 50 ELSE limit[1]
            P == PagesNeeded(T, L)
        IN  /\ L > 0
            /\ Len(requests) <= P
            /\ \A k \in 1..Len(requests) :
                  /\ requests[k].offset = (k - 1) * L
                  /\ requests[k].limit = L
            /\ Len(unitLog) = page
            /\ (bpc = "page" /\ page >= 1) => (hasMore <=> page < P)
            /\ (bpc \in {"page", "done"} /\ page >= 1) =>
                  /\ Len(requests) = page
                  /\ results = [k \in 1..Min(page * L, T) |-> k]
            /\ bpc = "done" =>
                  /\ page = P
                  /\ bOutcome.kind = "returned"
                  /\ bOutcome.value.items = [k \in 1..T |-> k]
                  /\ bOutcome.value.total = T
                  /\ bOutcome.value.code = "0"
            /\ (bpc = "done" /\ T = 120 /\ L = 50) =>
                  /\ Len(requests) = 3
                  /\ Len(bOutcome.value.items) = 120
                  /\ Len(unitLog[3].items) = 20

\* C19 witness: the example, three pages of 50, 50 and 20 items
C19_Witness ==
    /\ op = "list"
    /\ bpc = "done"
    /\ serverTotal = ExampleTotal
    /\ limit = Undefined
    /\ AllPagesAnswered
    /\ Len(requests) = 3
    /\ requests[3].offset = 2 * DefaultPageLimit
    /\ Len(bOutcome.value.items) = ExampleTotal

\* the step in which a page fetch of listWithIterator ends
PageSettles == op = "list" /\ Len(unitLog') = Len(unitLog) + 1

\* C20: in object.listWithIterator a page fetch that returns a non-success
\* code or throws never makes the iteration throw: one FailedPage entry
\* {offset, limit, code, msg} with that page's offset is appended to the
\* failed list, the offset advances by limit, and the items accumulated
\* from earlier pages are kept, up to the returned result.
C20_FailedPageIsRecorded ==
    [][/\ op = "list" => bOutcome'.kind # "thrown"
       /\ (PageSettles /\ ChunkFailedAsAWhole(unitLog'[Len(unitLog')])) =>
            LET u == unitLog'[Len(unitLog')]
                L == IF limit = Undefined THEN 50 ELSE limit[1]
            IN  /\ Len(failedPages') = Len(failedPages) + 1
                /\ SubSeq(failedPages', 1, Len(failedPages)) = failedPages
                /\ LET f == failedPages'[Len(failedPages')] IN
                      /\ f.offset = offset
                      /\ f.limit = L
                      /\ f.code = IF u.kind = "threw" THEN "1" ELSE u.code
                      /\ IF u.kind = "threw" \/ u.msg # <<"">>
                         THEN f.msg = u.msg
                         ELSE Len(f.msg) = 2 /\ f.msg[2] = u.code
                /\ offset' = offset + L
                /\ results' = results
                /\ bpc' = "page"
       /\ (op = "list" /\ bpc' = "done") =>
            /\ bOutcome'.kind = "returned"
            /\ bOutcome'.value.items = results
            /\ bOutcome'.value.failed =
                  IF failedPages = << >> THEN Undefined ELSE Some(failedPages)]_vars

\* C20 witness: the first page delivered two items, the second was refused,
\* the third threw, and the result keeps the two items and both failures
C20_Witness ==
    /\ op = "list"
    /\ bpc = "done"
    /\ limit = Some(2)
    /\ bOutcome.kind = "returned"
    /\ bOutcome.value.items = <<1, 2>>
    /\ Len(unitLog) = 3
    /\ unitLog[2].kind = "refused"
    /\ unitLog[3].kind = "threw"
    /\ bOutcome.value.failed # Undefined
    /\ Len(bOutcome.value.failed[1]) = 2
    /\ bOutcome.value.failed[1][1].offset = 2
    /\ bOutcome.value.failed[1][2].offset = 4
    /\ bOutcome.value.code = "2"

\* no page of the run has been answered successfully
NoPageSucceeded(log) == \A k \in 1..Len(log) : log[k].kind # "answered"

\* C21 (as claimed): in object.listWithIterator a page fetch that fails, by a
\* non-success code or by a thrown exception, while no page has succeeded
\* yet (total still unknown) ends the iteration: the loop test that follows
\* finds hasMore false, so that a server failing every fetch is asked once.
C21_FailedFetchWithUnknownTotalEnds ==
    [][(/\ PageSettles
        /\ ChunkFailedAsAWhole(unitLog'[Len(unitLog')])
        /\ NoPageSucceeded(unitLog')) => ~hasMore']_vars

\* C22 (as claimed): in object.listWithIterator, once a successful page has
\* reported a total T > 0, no later page is requested at an offset >= T,
\* whatever successes, non-success codes and exceptions follow.
C22_NoFetchAtOrBeyondTotal ==
    op = "list" =>
        \A k \in 1..Len(requests) : \A j \in 1..Len(unitLog) :
            (j < k /\ unitLog[j].kind = "answered" /\ unitLog[j].total > 0) =>
                requests[k].offset < unitLog[j].total

\* a next_page_token that is absent, empty or the text 'null'
EndsPaging(tok) == tok \in {Undefined, Some(""), Some("null")}

\* C23: object.search.recordsWithIterator fetches exactly k pages, page k
\* being the first whose answer has a next_page_token that is empty, absent
\* or 'null': a page is requested only after pages that all carried a real
\* token, hasMore is true after each of them and false after page k, every
\* request after the first carries the next_page_token of the answer before
\* it, and the returned items are the pages' items in fetch order.
C23_CursorPagination ==
    op = "search" =>
        /\ \A j \in 1..Len(unitLog) : unitLog[j].index = j
        /\ \A k \in 1..Len(requests) : \A j \in 1..(k - 1) :
              unitLog[j].kind = "answered" /\ ~EndsPaging(unitLog[j].token)
        /\ \A k \in 2..Len(requests) :
              requests[k].index = k /\ requests[k].page_token = unitLog[k - 1].token
        /\ (bpc = "page" /\ page >= 1) =>
              /\ Len(unitLog) = page
              /\ hasMore <=> ~EndsPaging(unitLog[page].token)
        /\ (bpc = "done" /\ bOutcome.kind = "returned") =>
              LET k == Len(unitLog) IN
                /\ k >= 1
                /\ Len(requests) = k
                /\ unitLog[k].kind = "answered"
                /\ EndsPaging(unitLog[k].token)
                /\ bOutcome.value.items = Concat([j \in 1..k |-> unitLog[j].items])

\* C23 witness: three pages, the third answering next_page_token 'null'
C23_Witness ==
    /\ op = "search"
    /\ bpc = "done"
    /\ bOutcome.kind = "returned"
    /\ Len(requests) = 3
    /\ requests[2].page_token = Some("tok")
    /\ unitLog[2].token = Some("tok")
    /\ unitLog[3].token = Some("null")
    /\ bOutcome.value.items = <<1, 2, 3>>

\* C24: in object.search.recordsWithIterator a page answered with a
\* non-success code makes the whole iteration fail at once: the iterator
\* throws, the refused page is the last one requested, and no {total, items}
\* result is returned, whatever earlier pages delivered.
C24_RefusedSearchPageFailsTheRun ==
    (op = "search" /\ \E j \in 1..Len(unitLog) : unitLog[j].kind = "refused") =>
        /\ unitLog[Len(unitLog)].kind = "refused"
        /\ \A j \in 1..(Len(unitLog) - 1) : unitLog[j].kind = "answered"
        /\ Len(requests) = Len(unitLog)
        /\ bpc = "done"
        /\ bOutcome.kind = "thrown"
        /\ bOutcome.error.msg =
              (IF unitLog[Len(unitLog)].msg # <<"">> THEN unitLog[Len(unitLog)].msg
               ELSE <<"Query failed with code", unitLog[Len(unitLog)].code>>)

\* C24 witness: the first page delivered an item and a token, the second
\* was refused, and the run threw
C24_Witness ==
    /\ op = "search"
    /\ bpc = "done"
    /\ Len(unitLog) = 2
    /\ unitLog[1].kind = "answered"
    /\ results = <<1>>
    /\ unitLog[2].kind = "refused"
    /\ bOutcome.kind = "thrown"

\* C25 (as claimed): the first request of every run of
\* object.search.recordsWithIterator carries a page token equal to the empty
\* string, whether or not use_page_token is set.
C25_FirstRequestHasEmptyToken ==
    (op = "search" /\ Len(requests) >= 1) => requests[1].page_token = Some("")

\* C25 (amended): with use_page_token set the first request carries the
\* empty string as page token, over any page_token of the caller's data;
\* without it the iterator puts no page token in the first request, whose
\* page_token is absent or the one the caller's data carries.
C25_FirstRequestToken ==
    (op = "search" /\ Len(requests) >= 1) =>
        requests[1].page_token = (IF usePageToken THEN Some("") ELSE input.page_token)

\* C25 witness: use_page_token set and a page_token in the caller's data;
\* the first request was sent with the empty string
C25_Witness ==
    /\ op = "search"
    /\ usePageToken
    /\ input.page_token = Some("mine")
    /\ Len(requests) >= 1
    /\ requests[1].page_token = Some("")

\* C26 (as claimed): every unit call of a pagination or batch run, each page
\* fetch of object.listWithIterator included, is admitted by the call
\* scheduler before its credential check begins, and its request is sent
\* after that check has returned, the call still holding its admission.
C26_UnitCallsAreAdmittedFirst ==
    [][/\ (bpc = "ensure" /\ bpc' = "token") => admitted = 1
       /\ Len(requests') > Len(requests) =>
            (admitted = 1 /\ bpc = "token" /\ tpc[BatchTask] = "returned")]_vars

\* C27 (as claimed): department.batchExchange never sends more than 100
\* department ids in one request.
C27_DepartmentRequestsAtMost100 ==
    op = "department" => \A k \in 1..Len(requests) : requests[k].size <= 100

\* every page of an offset iterator so far was answered successfully,
\* reporting the server's total
AllOffsetPagesAnswered ==
    \A k \in 1..Len(unitLog) :
        unitLog[k].kind = "answered" /\ unitLog[k].total = serverTotal

\* C29 (as claimed): page.listWithIterator, global.options.listWithIterator
\* and global.variables.listWithIterator, against a server that reports
\* total T and answers every page successfully, make at most
\* max(1, ceil(T / limit)) fetches, however few items the pages carry.
C29_OffsetIteratorStopsAtTotal ==
    (op \in OffsetOps /\ AllOffsetPagesAnswered) =>
        Len(requests) <=
            PagesNeeded(serverTotal,
                        IF limit = Undefined \/ limit[1] = 0 THEN 100 ELSE limit[1])

\* C30 (as claimed): the offset-based iterators page.listWithIterator,
\* global.options.listWithIterator and global.variables.listWithIterator do
\* not throw because a page fetch failed, by a non-success code or a rejected
\* request: after the failure the run goes on to the remaining pages and
\* ends by returning a result.
C30_OffsetIteratorContainsFailures ==
    (op \in OffsetOps /\ authFailures = 0) =>
        /\ bOutcome.kind # "thrown"
        /\ bpc = "done" => bOutcome.kind = "returned"

\* C31 (as claimed): the total returned by object.search.recordsWithIterator
\* is the total the first page's answer reported, whatever totals later
\* pages report.
C31_SearchTotalIsFirstPages ==
    (op = "search" /\ bpc = "done" /\ bOutcome.kind = "returned"
        /\ unitLog[1].total # Undefined) =>
        bOutcome.value.total = unitLog[1].total[1]

\* the pages of the run whose fetch failed, in fetch order
FailedPageNumbers ==
    SelectSeq([k \in 1..Len(unitLog) |-> k], LAMBDA k : ChunkFailedAsAWhole(unitLog[k]))

\* the decimal text of a small count
Decimal(n) ==
    CASE n = 0 -> "0" [] n = 1 -> "1" [] n = 2 -> "2" [] n = 3 -> "3"
      [] n = 4 -> "4" [] n = 5 -> "5" [] OTHER -> "more"

\* C34: the result of object.listWithIterator has code equal to the decimal
\* string of the number of failed page fetches, msg 'Success' exactly when
\* that number is 0, and a `failed` field exactly when it is greater than 0,
\* holding one entry per failed page fetch, in fetch order (the entry of
\* page k carrying that page's offset (k - 1) * limit).
C34_ListResultReportsFailedPages ==
    (op = "list" /\ bpc = "done" /\ bOutcome.kind = "returned") =>
        LET n == Len(FailedPageNumbers)
            L == IF limit = Undefined THEN 50 ELSE limit[1]
            v == bOutcome.value
        IN  /\ v.code = Decimal(n)
            /\ (v.msg = <<"Success">>) <=> (n = 0)
            /\ (v.failed # Undefined) <=> (n > 0)
            /\ n > 0 =>
                  /\ Len(v.failed[1]) = n
                  /\ \A j \in 1..n :
                        v.failed[1][j].offset = (FailedPageNumbers[j] - 1) * L

\* C34 witness: a page delivered, the next one threw, and the result has
\* code '1' and one failed entry
C34_Witness ==
    /\ op = "list"
    /\ bpc = "done"
    /\ bOutcome.kind = "returned"
    /\ Len(unitLog) = 2
    /\ unitLog[1].kind = "answered"
    /\ unitLog[2].kind = "threw"
    /\ bOutcome.value.code = "1"
    /\ bOutcome.value.msg # <<"Success">>
    /\ Len(bOutcome.value.failed[1]) = 1

\* the entries a step has appended to a list
Appended(old, new) == SubSeq(new, Len(old) + 1, Len(new))

\* the claimed reading of an item's success flag
FlagMeansSuccess(o, x) ==
    IF o = "create" THEN x.success # "false" ELSE x.success = "true"

\* C36: when the call for a chunk of create / update / delete
\* recordsWithIterator returns success with per-item outcomes, every
\* returned item is appended to exactly one of `success` and `failed`, in
\* answer order: create counts an item as failed only when its flag is false
\* (an item without the flag is a success), update and delete count an item
\* as a success only when its flag is true (an item without it is failed).
C36_ItemsClassifiedByFlag ==
    [][(op \in RecordOps /\ ChunkSettles
          /\ unitLog'[Len(unitLog')].kind = "answered") =>
          LET its == unitLog'[Len(unitLog')].items
              newS == Appended(successItems, successItems')
              newF == Appended(failedItems, failedItems')
          IN  /\ SubSeq(successItems', 1, Len(successItems)) = successItems
              /\ SubSeq(failedItems', 1, Len(failedItems)) = failedItems
              /\ Len(newS) + Len(newF) = Len(its)
              /\ newS = SelectSeq(its, LAMBDA x : FlagMeansSuccess(op, x))
              /\ newF = SelectSeq(its, LAMBDA x : ~FlagMeansSuccess(op, x))]_vars

\* C36 witness: an update whose answer held an item flagged true and an item
\* without flag, the first in `success` and the second in `failed`
C36_Witness ==
    /\ op = "update"
    /\ bpc = "done"
    /\ Len(unitLog) = 1
    /\ unitLog[1].kind = "answered"
    /\ \E j \in 1..Len(successItems) : successItems[j].success = "true"
    /\ \E j \in 1..Len(failedItems) : failedItems[j].success = "undefined"

(* ======================= properties: SpecRetry ======================== *)

\* transient as the specification words it: no response was received, or a
\* response with status >= 500, or with status 429
Transient(e) ==
    \/ ~e.received
    \/ e.response # Undefined /\ (e.response[1] >= 500 \/ e.response[1] = 429)

AllTransient(log) == \A a \in 1..Len(log) : Transient(log[a])

\* C4: against an operation that fails transiently on every attempt,
\* executeWithRetry with maxRetries = M >= 0 invokes it exactly M+1 times,
\* waits min(initialDelay * backoffMultiplier^k, maxDelay) after the k-th
\* failed attempt (k = 0..M-1; 1000, 2000, 4000 for the defaults), waits
\* nothing after the final attempt and throws the last attempt's failure.
C4_ExhaustionAttemptsAndDelays ==
    LET P == Policy(retryOptions)
        M == P.maxRetries
    IN  AllTransient(errLog) =>
          /\ fnCalls <= M + 1
          /\ Len(delays) <= M
          /\ \A k \in 1..Len(delays) :
                delays[k] = Min(P.initialDelay * (P.backoffMultiplier ^ (k - 1)), P.maxDelay)
          /\ Len(delays) = Min(Len(errLog), M)
          /\ (Len(errLog) = M + 1) <=> (rpc = "thrown")
          /\ rpc = "thrown" =>
                /\ fnCalls = M + 1
                /\ Len(delays) = M
                /\ rOutcome = Some(errLog[M + 1])
          /\ (rpc = "thrown" /\ retryOptions = NoRetryOptions) =>
                /\ fnCalls = 4
                /\ delays = <<1000, 2000, 4000>>

\* C4 witness: the default policy exhausted by four transient failures
C4_Witness ==
    /\ rpc = "thrown"
    /\ retryOptions = NoRetryOptions
    /\ Len(errLog) = 4
    /\ AllTransient(errLog)

\* C5: an attempt that fails with a non-transient failure is the last one:
\* the operation has been invoked exactly up to that attempt, no delay
\* follows it, and that same failure is thrown.
C5_NonTransientFailsFast ==
    \A a \in 1..Len(errLog) :
        ~Transient(errLog[a]) =>
            /\ a = Len(errLog)
            /\ fnCalls = a
            /\ Len(delays) = a - 1
            /\ rpc = "thrown"
            /\ rOutcome = Some(errLog[a])

\* C5 witness: a business failure on the second of four allowed attempts
C5_Witness ==
    /\ rpc = "thrown"
    /\ Len(errLog) = 2
    /\ errLog[2] \in FnErrorsAt(2)
    /\ ~errLog[2].isAxios
    /\ attempt < Policy(retryOptions).maxRetries

\* C6: the classifier calls a failure transient exactly when no response
\* was received, or the response status is >= 500 or 429; a 4xx other than
\* 429 and a business-level failure are non-transient.  Read off the
\* classifier and off what executeWithRetry did after each failure.
C6_ClassifierTransientIff ==
    \A a \in 1..Len(errLog) :
        LET e == errLog[a] IN
        /\ isRetryableError(e) <=> Transient(e)
        /\ (e.response # Undefined /\ e.response[1] \in 400..499 /\ e.response[1] # 429)
              => ~isRetryableError(e)
        /\ (~e.isAxios /\ e.received) => ~isRetryableError(e)
        /\ (a - 1 < Policy(retryOptions).maxRetries) =>
              ((Len(delays) >= a) <=> Transient(e))

\* C6 witness: a 429 was retried and a 404 then ended the run
C6_Witness ==
    /\ Len(errLog) = 2
    /\ errLog[1].response = Some(429)
    /\ errLog[2].response = Some(404)
    /\ Len(delays) = 1
    /\ rpc = "thrown"

\* C35: executeWithRetry returns the value of the first attempt that
\* succeeds and makes no attempt after it: while attempts 1..j-1 have failed
\* transiently the operation has been invoked once per failure and is
\* invoked again (j <= maxRetries + 1), and once attempt j succeeds the
\* executor has returned that attempt's value after exactly j invocations,
\* one delay per failure, and has thrown nothing.
C35_FirstSuccessIsReturned ==
    LET M == Policy(retryOptions).maxRetries IN
    /\ (rpc = "loop" /\ AllTransient(errLog)) =>
          /\ fnCalls = Len(errLog)
          /\ attempt = Len(errLog)
          /\ attempt <= M
    /\ rpc = "await" => fnCalls = Len(errLog) + 1
    /\ rpc = "returned" =>
          /\ AllTransient(errLog)
          /\ fnCalls = Len(errLog) + 1
          /\ fnCalls <= M + 1
          /\ Len(delays) = Len(errLog)
          /\ rOutcome = Some(<<"value", fnCalls>>)

\* C35 witness: two transient failures, then the third attempt succeeds
C35_Witness ==
    /\ rpc = "returned"
    /\ Len(errLog) = 2
    /\ fnCalls = 3
    /\ rOutcome = Some(<<"value", 3>>)
    /\ Len(delays) = 2

(* ======================= properties: SpecToken ======================== *)

\* C7: with token caching enabled and a credential held, ensureTokenValid
\* sends a refresh request when expireTime - now < 60000 and sends nothing
\* (and returns at once, the credential untouched) when expireTime - now >=
\* 60000; with no credential held it always refreshes.
C7_RefreshIffWithinMargin ==
    [][\A t \in Tasks :
         (tpc[t] = "idle" /\ tpc'[t] # "idle" /\ ~disableTokenCache) =>
            IF accessToken = Undefined \/ expireTime = Undefined
            THEN issued' = issued + 1 /\ tpc'[t] = "refreshing"
            ELSE IF expireTime[1] - now < 60000
                 THEN issued' = issued + 1 /\ tpc'[t] = "refreshing"
                 ELSE /\ issued' = issued
                      /\ tpc'[t] = "returned"
                      /\ accessToken' = accessToken
                      /\ expireTime' = expireTime]_vars

\* C7 witness: of three calls with caching enabled one sent nothing, and the
\* latest finds a credential held that is inside the margin and refreshes
C7_Witness ==
    /\ ~disableTokenCache
    /\ ensureCalls["t1"] = 2
    /\ ensureCalls["t2"] = 1
    /\ issued = 2
    /\ tpc["t1"] = "idle"
    /\ tpc["t2"] = "refreshing"
    /\ accessToken # Undefined
    /\ expireTime # Undefined
    /\ expireTime[1] > 0
    /\ expireTime[1] - now < 60000

\* C8 (as claimed): whenever ensureTokenValid returns normally the client
\* holds a credential whose expiry is later than the current time, whatever
\* expiry the endpoint returned in its successful answer.
C8_ReturnsWithUnexpiredCredential ==
    [][\A t \in Tasks :
         (tpc[t] # "returned" /\ tpc'[t] = "returned") =>
            /\ accessToken' # Undefined
            /\ expireTime' # Undefined
            /\ expireTime'[1] > now']_vars

\* C9: a task that calls ensureTokenValid while no valid credential is
\* cached and another task's refresh is still in flight sends a refresh
\* request of its own, so that two are in flight at once.
C9_RacingCallersEachRefresh ==
    [][\A t \in Tasks :
         (/\ tpc[t] = "idle"
          /\ tpc'[t] # "idle"
          /\ RefreshesInFlight >= 1
          /\ \/ accessToken = Undefined
             \/ expireTime = Undefined
             \/ expireTime[1] - now < 60000) =>
            /\ issued' = issued + 1
            /\ tpc'[t] = "refreshing"
            /\ RefreshesInFlight' = RefreshesInFlight + 1]_vars

\* C9 witness: two refresh requests of one client in flight at once
C9_Witness ==
    /\ tpc["t1"] = "refreshing"
    /\ tpc["t2"] = "refreshing"
    /\ issued = 2
    /\ accessToken = Undefined

\* C11: when the appToken endpoint answers with a non-success code,
\* ensureTokenValid throws an error whose message carries the server's msg,
\* and accessToken and expireTime are exactly what they were before.
C11_RefusalThrowsAndStoresNothing ==
    [][\A t \in Tasks :
         (tpc[t] = "refreshing" /\ tpc'[t] = "threw") =>
            /\ tErr'[t] # Undefined
            /\ ~tErr'[t][1].isAxios =>
                  \E res \in TokenResponses :
                     /\ res.code # "0"
                     /\ tErr'[t][1].msg = <<"getAccessToken failed", res.msg>>
            /\ accessToken' = accessToken
            /\ expireTime' = expireTime]_vars

\* C11 witness: a refresh was refused while a credential from an earlier
\* refresh is held, and that credential is still the one stored
C11_Witness ==
    /\ tpc["t2"] = "threw"
    /\ tErr["t2"] = Some(PlainError(<<"getAccessToken failed", "invalid client">>))
    /\ accessToken = Some(<<"token", StartNow>>)
    /\ expireTime = Some(StartNow)
    /\ issued = 2

\* C12: with token caching disabled every call of ensureTokenValid sends
\* exactly one refresh request, whatever credential is stored and however
\* far in the future its expiry: one when it is entered, none afterwards.
C12_CacheDisabledAlwaysRefreshes ==
    [][\A t \in Tasks :
         disableTokenCache =>
            /\ (tpc[t] = "idle" /\ tpc'[t] # "idle") =>
                  (issued' = issued + 1 /\ tpc'[t] = "refreshing")
            /\ (tpc[t] = "refreshing" /\ tpc'[t] # tpc[t]) =>
                  (issued' = issued /\ tpc'[t] \in {"returned", "threw"})
            /\ (tpc[t] \in {"returned", "threw"} /\ tpc'[t] # tpc[t]) =>
                  (issued' = issued /\ tpc'[t] = "idle")]_vars

\* C12 witness: caching disabled, a credential held that expires beyond the
\* margin, and the second call of the task has sent a second refresh request
C12_Witness ==
    /\ disableTokenCache
    /\ accessToken # Undefined
    /\ expireTime # Undefined
    /\ expireTime[1] - now >= 2 * RefreshMargin
    /\ ensureCalls["t1"] = 2
    /\ ensureCalls["t2"] = 0
    /\ issued = 2
    /\ tpc["t1"] = "refreshing"

\* C37: at every point where a task can be suspended, under every
\* interleaving of the calls and refreshes of two tasks on one client, the
\* stored token and the stored expiry are both unset or are the token and
\* the expiry of one and the same success answer of the appToken endpoint.
C37_TokenAndExpiryFromOneAnswer ==
    \/ accessToken = Undefined /\ expireTime = Undefined
    \/ \E res \in TokenResponses :
          /\ res.code = "0"
          /\ accessToken = Some(res.accessToken)
          /\ expireTime = Some(res.expireTime)

\* C37 witness: the answer to one task's refresh is stored, good beyond the
\* margin, while the refresh the other task sent before it is still in flight
C37_Witness ==
    /\ ~disableTokenCache
    /\ tpc["t1"] = "returned"
    /\ tpc["t2"] = "refreshing"
    /\ issued = 2
    /\ accessToken # Undefined
    /\ expireTime # Undefined
    /\ expireTime[1] - now > RefreshMargin

(* ======================= properties: SpecAccess ======================= *)

\* C28 (as claimed): the stored credential changes only when a refresh
\* succeeds, and a read of the accessors changes nothing and sends nothing;
\* token returns null until then and the stored token afterwards;
\* tokenExpireTime returns null if no credential was ever fetched, 0 if the
\* stored expiry is not later than the clock, and otherwise
\* floor((expireTime - now) / 1000).
C28_AccessorsReportTheCredential ==
    [][/\ (accessToken' # accessToken \/ expireTime' # expireTime) =>
             /\ \E t \in Tasks : tpc[t] = "refreshing" /\ tpc'[t] = "returned"
             /\ accessToken' # Undefined
             /\ expireTime' # Undefined
       /\ observed' # observed =>
             /\ UNCHANGED <<accessToken, expireTime, issued, tpc, tErr, now>>
             /\ observed'[1].token = accessToken
             /\ observed'[1].remaining =
                   (IF accessToken = Undefined THEN Undefined
                    ELSE IF expireTime[1] <= observed'[1].at THEN Some(0)
                    ELSE Some((expireTime[1] - observed'[1].at) \div 1000))]_vars

(* ================ properties: Spec, retried chunk calls ================ *)

\* C32: in department.batchExchange and user.batchExchange called without
\* retryOptions, a chunk call that has failed for good was attempted 4 times
\* with delays 1000, 2000, 4000 if every attempt failed transiently and once
\* if the first attempt failed otherwise (a business failure code); every id
\* of the chunk is then appended to `failed` with the last error's message,
\* nothing to `success`, and the loop moves to the next chunk.
C32_DefaultPolicyOnExchangeChunks ==
    [][(op \in ExchangeOps /\ ChunkSettles /\ rpc = "thrown"
          /\ retryParam = NoRetryOptions) =>
          /\ AllTransient(errLog) =>
                /\ fnCalls = 4
                /\ Len(errLog) = 4
                /\ delays = <<1000, 2000, 4000>>
          /\ ~Transient(errLog[1]) =>
                /\ fnCalls = 1
                /\ delays = << >>
          /\ failedItems' = failedItems \o
                [j \in 1..Len(chunks[index]) |->
                    [id |-> chunks[index][j], error |-> errLog[Len(errLog)].msg]]
          /\ successItems' = successItems
          /\ index' = index + 1
          /\ bpc' = "next"]_vars

\* C32 witness: the first chunk of two was requested four times, failed
\* transiently each time and its 200 ids are in `failed`; the second chunk
\* is being called
C32_Witness ==
    /\ op = "department"
    /\ retryParam = NoRetryOptions
    /\ Len(chunks) = 2
    /\ index = 2
    /\ bpc = "request"
    /\ unitLog[1].kind = "threw"
    /\ Cardinality({k \in 1..Len(requests) : requests[k].index = 1}) = 4
    /\ Len(failedItems) = ExchangeChunkSize

\* C33: the stored token and expiry are written only by a successful
\* credential refresh: every step that changes either of them is the step
\* in which a refresh in flight returns normally, and stores the token and
\* expiry of one success answer of the appToken endpoint; no step of a
\* batch or pagination run, no data request and no failed refresh changes
\* them.
C33_OnlyASuccessfulRefreshWrites ==
    [][(accessToken' # accessToken \/ expireTime' # expireTime) =>
          /\ \E t \in Tasks :
                /\ tpc[t] = "refreshing"
                /\ tpc'[t] = "returned"
                /\ tErr'[t] = Undefined
          /\ \E res \in TokenResponses :
                /\ res.code = "0"
                /\ accessToken' = Some(res.accessToken)
                /\ expireTime' = Some(res.expireTime)
          /\ UNCHANGED <<requests, unitLog, bpc, authFailures>>]_vars

\* C33 witness: a run in which a refresh failed and requests were sent, the
\* client holding a credential
C33_Witness ==
    /\ authFailures >= 1
    /\ issued >= 2
    /\ Len(requests) >= 1
    /\ accessToken # Undefined
    /\ expireTime # Undefined

\* the positions of a unit call between functionLimiter's admission and
\* the end of the wrapped call
InsideUnitCall == bpc \in {"ensure", "token", "request"}

\* C38: no operation asks the call scheduler for admission from inside an
\* already admitted operation: along every call path (single calls, batch
\* chunk calls, page fetches, retries) a task holds at most one admission;
\* it asks only while it holds none, holds it only inside the unit call,
\* and a new one is asked for only after the previous one is released.
C38_NoNestedAdmission ==
    [][/\ admitted \in {0, 1}
       /\ admitted' \in {0, 1}
       /\ admitted' > admitted => (admitted = 0 /\ bpc = "admit" /\ bpc' = "ensure")
       /\ admitted = 1 => InsideUnitCall
       /\ bpc = "admit" => admitted = 0]_vars

\* C38 witness: the second attempt of a retried batchExchange chunk call
\* has its request in flight, holding the one admission of that attempt
C38_Witness ==
    /\ op \in ExchangeOps
    /\ fnCalls = 2
    /\ bpc = "request"
    /\ admitted = 1
    /\ Len(requests) = 2
    /\ requests[1].index = requests[2].index

\* C39: in department.batchExchange and user.batchExchange a task waiting
\* out a retry backoff delay holds no scheduler admission: the failed
\* attempt's admission is released in the step that starts the delay, and
\* every attempt, the first and each retry, asks for an admission of its
\* own before its credential check.
C39_BackoffHoldsNoAdmission ==
    [][/\ (op \in ExchangeOps /\ rpc = "sleep") => admitted = 0
       /\ (op \in ExchangeOps /\ rpc # "sleep" /\ rpc' = "sleep") =>
            (admitted = 1 /\ admitted' = 0)
       /\ (op \in ExchangeOps /\ fnCalls' = fnCalls + 1) =>
            (admitted = 0 /\ bpc' = "admit")
       /\ (op \in ExchangeOps /\ bpc = "admit" /\ bpc' # "admit") =>
            admitted' = admitted + 1]_vars

\* C39 witness: a chunk call of batchExchange has failed twice and the
\* task waits out the second backoff delay with no admission held
C39_Witness ==
    /\ op \in ExchangeOps
    /\ rpc = "sleep"
    /\ fnCalls = 2
    /\ Len(delays) = 2
    /\ Len(requests) >= 1
    /\ admitted = 0

=============================================================================
